---- MODULE Spec2Model ----
(***************************************************************************)
(* Refresh-token lifecycle of the timz backend: issue, verify, rotate and  *)
(* revoke, as run by concurrent requests against one PostgreSQL table.    *)
(*                                                                         *)
(* Every request owns one AsyncSession, hence one transaction (READ        *)
(* COMMITTED).  A request is a sequence of steps separated by the awaits   *)
(* of its handler; what it wrote stays in its transaction (txn) and        *)
(* reaches the table only when it commits.  An UPDATE takes the row locks  *)
(* of the rows it changes and waits while another transaction holds one.   *)
(* Time is counted in days, the unit of REFRESH_TTL_DAYS.                  *)
(***************************************************************************)
EXTENDS Integers, Sequences, FiniteSets, TLC

VARIABLES
    refresh_tokens,   \* the committed rows of table refresh_tokens; a row's id is its index
    clock,            \* the wall clock read by datetime.now
    secrets_drawn,    \* how many raw secrets secrets.token_urlsafe has produced
    pc,               \* pc[p]: where request p stands in its handler
    req,              \* req[p]: the operation of request p and its arguments
    rt,               \* rt[p]: id of the row the refresh handler loaded (0: none)
    now,              \* now[p]: the handler's local `now`
    new_refresh_raw,  \* new_refresh_raw[p]: the raw secret drawn by the handler (0: None)
    targets,          \* targets[p]: rows the UPDATE statement of p saw in its snapshot
    horizon,          \* horizon[p]: number of rows that were committed when p's UPDATE began
    txn,              \* txn[p]: the uncommitted writes of p's session
    resp,             \* the response sent by the step just taken (NoResp: none), with its request
    rotated,          \* history: <<old raw, new raw>> of every rotation that has committed
    loggedOut,        \* history: rows that existed for a user when a logout, since committed, began
    aclock,           \* the wall clock read by _now() and by jwt.decode, in ticks of half a second
    token,            \* the access token a caller holds and may alter before presenting it
    minted,           \* the arguments and the time of the call that minted `token`
    verified,         \* what verify_access_token did in the step just taken (NoResult: not called)
    users,            \* the committed rows of table users, as the set of their ids
    user_roles,       \* the committed rows of table user_roles: <<user id, role name>>
    wallet,           \* the access tokens that logins have handed out
    gpc,              \* gpc[p]: where guarded request p stands in its dependencies
    request,          \* request[p]: header and route of guarded request p, and what it has done
    state,            \* state[k].role_names: the role set memoized under key k (request.state)
    gresp,            \* what the guard step just taken decided (NoDecision: nothing)
    admin_pc,         \* admin_pc[p]: where admin request p stands in grant_role / revoke_role
    admin_req,        \* admin_req[p]: the operation of admin request p and its path parameters
    admin_resp,       \* the response sent by the admin step just taken (NoAdminResp: none)
    user_rows,        \* the committed rows of table users with their columns
    exchange_pc,      \* exchange_pc[p]: where exchange request p stands
    exchange_req,     \* exchange_req[p]: the claims of request p and its `user` object
    exchange_txn,     \* exchange_txn[p]: the users row p has inserted and not yet committed
    exchange_resp,    \* the response sent by the exchange step just taken (NoExchangeResp: none)
    exchanged         \* history: <<firebase uid, user id>> of every exchange that returned tokens

refreshVars == <<refresh_tokens, clock, secrets_drawn, pc, req, rt, now, new_refresh_raw,
                 targets, horizon, txn, resp, rotated, loggedOut>>

accessVars == <<aclock, token, minted, verified>>

guardVars == <<users, user_roles, wallet, gpc, request, state, gresp>>

adminVars == <<admin_pc, admin_req, admin_resp>>

exchangeVars == <<user_rows, exchange_pc, exchange_req, exchange_txn, exchange_resp, exchanged>>

vars == <<refreshVars, accessVars, guardVars, adminVars, exchangeVars>>

----------------------------------------------------------------------------
\* Bounds of the model: how many raw secrets are drawn under Spec and under
\* SpecRotation, and how far the clock runs.
MaxSecrets == 2
MaxRotationSecrets == 3
MaxClock == 1
\* How long the access-token clock runs (ticks) and until when tokens are minted.
MaxAccessTicks == 124
MaxMintTicks == 3

Procs == {"p1", "p2"}
Users == {"u1", "u2"}

\* Configuration.
REFRESH_TTL_DAYS == 1
REFRESH_TOKEN_PEPPER == "superpepper"

NULL == -1
EmptyRaw == 0
NotAToken == -2

----------------------------------------------------------------------------
\* Pure helpers.

\* A variant that stores the secret as it is; C27 distinguishes the code from it.
_hash_refresh_Plain(raw) == <<"plain", "", raw>>

\* HMAC-SHA256 keyed by the pepper: a digest of (pepper, raw), never the raw itself.
_hash_refresh(raw) == <<"hmac_sha256", REFRESH_TOKEN_PEPPER, raw>>

hash_refresh_token(raw) == _hash_refresh(raw)

\* RefreshToken(user_id=..., token_hash=..., expires_at=...): revoked_at starts NULL.
\* issued_at is the issuance timestamp: the time from which expires_at was counted.
RefreshToken(user_id, token_hash, expires_at, issued_at) ==
    [user_id |-> user_id, token_hash |-> token_hash, issued_at |-> issued_at,
     expires_at |-> expires_at, revoked_at |-> NULL]

Ids(tbl) == 1..Len(tbl)

\* select(RefreshToken).where(RefreshToken.token_hash == token_hash) ... .first()
SelectByHash(tbl, token_hash) ==
    LET hit == {i \in Ids(tbl) : tbl[i].token_hash = token_hash}
    IN  IF hit = {} THEN 0 ELSE CHOOSE i \in hit : \A j \in hit : i <= j

\* A variant of the checks that still accepts a row at now = expires_at; C5
\* distinguishes the code from it.
VerifyDetail_ExpiryInclusive(tbl, id, t) ==
    IF id = 0 THEN "refresh_unknown"
    ELSE IF tbl[id].revoked_at # NULL THEN "refresh_revoked"
    ELSE IF tbl[id].expires_at < t THEN "refresh_expired"
    ELSE "ok"

\* A variant of the checks that tests expiry before revocation; C6 distinguishes
\* the code from it.
VerifyDetail_ExpiryFirst(tbl, id, t) ==
    IF id = 0 THEN "refresh_unknown"
    ELSE IF tbl[id].expires_at <= t THEN "refresh_expired"
    ELSE IF tbl[id].revoked_at # NULL THEN "refresh_revoked"
    ELSE "ok"

\* The cascade of checks on the loaded row: existence, revocation, expiry.
VerifyDetail(tbl, id, t) ==
    IF id = 0 THEN "refresh_unknown"
    ELSE IF tbl[id].revoked_at # NULL THEN "refresh_revoked"
    ELSE IF tbl[id].expires_at <= t THEN "refresh_expired"
    ELSE "ok"

\* A variant of the WHERE clause that selects only usable rows (it also asks for
\* expires_at > now); C8 distinguishes the code from it.
ActiveOfUser_Usable(tbl, user_id) ==
    {i \in Ids(tbl) : /\ tbl[i].user_id = user_id
                      /\ tbl[i].revoked_at = NULL
                      /\ tbl[i].expires_at > clock}

\* A variant of the WHERE clause without the user_id condition; C9 distinguishes
\* the code from it.
ActiveOfUser_AnyUser(tbl, user_id) ==
    {i \in Ids(tbl) : tbl[i].revoked_at = NULL}

\* WHERE user_id = :user_id AND revoked_at IS NULL
ActiveOfUser(tbl, user_id) ==
    {i \in Ids(tbl) : tbl[i].user_id = user_id /\ tbl[i].revoked_at = NULL}

\* ttl = ttl_days or settings.REFRESH_TTL_DAYS
EffectiveTtl(ttl_days) == IF ttl_days # 0 THEN ttl_days ELSE REFRESH_TTL_DAYS

NoTxn == [upd |-> {}, at |-> NULL, ins |-> <<>>]

\* COMMIT: the session's UPDATEs and INSERTs become visible together.
ApplyTxn(tbl, t) ==
    [i \in Ids(tbl) |->
        IF i \in t.upd THEN [tbl[i] EXCEPT !.revoked_at = t.at] ELSE tbl[i]] \o t.ins

\* A row of ids is locked by the uncommitted UPDATE of another session.
LockedByOther(p, ids) == \E q \in Procs \ {p} : txn[q].upd \cap ids # {}

NoReq == [op |-> "none", raw |-> EmptyRaw, rotate |-> FALSE, user_id |-> "none",
          single_device |-> FALSE, ttl_days |-> 0]

NoResp == [req |-> NoReq, status |-> 0, detail |-> "none",
           sub |-> "none", refresh_token |-> 0, revoked |-> 0]

\* raise HTTPException(status_code=status, detail=detail)
HttpError(status, detail) == [NoResp EXCEPT !.status = status, !.detail = detail]

\* return ...: a 200 response
HttpOk(sub, refresh_token, revoked) ==
    [NoResp EXCEPT !.status = 200, !.detail = "ok", !.sub = sub,
                   !.refresh_token = refresh_token, !.revoked = revoked]

----------------------------------------------------------------------------
\* Access tokens: JWTs signed with HS256 (core/jwt.py) and checked by PyJWT.

JWT_SECRET == "testsecret"
ACCESS_TTL_MIN == 1
ALGO == "HS256"

\* The clock has sub-second resolution; _ts and PyJWT's claims count whole seconds.
TicksPerSecond == 2
SecondsPerMinute == 60

\* An HS256 signature is 256 bits; base64url writes 6 bits per character, so the
\* last character of a signature segment carries 4 bits of it and 2 unused bits.
HS256Bits == 256
Base64CharBits == 6
Base64UnusedBits == (Base64CharBits - (HS256Bits % Base64CharBits)) % Base64CharBits
Base64UnusedValues == 2 ^ Base64UnusedBits

\* int(dt.timestamp())
_ts(t) == t \div TicksPerSecond

\* timedelta(minutes=m), in ticks
timedelta_minutes(m) == m * SecondsPerMinute * TicksPerSecond

NoPayload == [sub |-> "none", roles |-> <<>>, iat |-> 0, exp |-> 0, typ |-> "none"]

\* A signature segment as text: whose digest it was written from (key, over),
\* whether one of its characters before the last still reads as written (head),
\* the value of the digest's last 4 bits (low) and the last character (last, its
\* index in the base64url alphabet: 'A' is 0, 'B' is 1).
NoSignature == [key |-> "none", over |-> NoPayload, head |-> "none", low |-> 0, last |-> 0]

NoToken == [segments |-> 0, alg |-> "none", payload |-> NoPayload, signature |-> NoSignature]

\* A string that is not three dot-separated segments.
Malformed == [NoToken EXCEPT !.segments = 1]

\* hmac(key, header.payload, sha256).digest(); low is the value of its last 4 bits.
HS256(key, payload, low) == [key |-> key, over |-> payload, head |-> "minted", nibble |-> low]

\* base64url text of a digest: the unused bits of the last character are written 0.
base64url_encode(digest) ==
    [key |-> digest.key, over |-> digest.over, head |-> digest.head,
     low |-> digest.nibble, last |-> digest.nibble * Base64UnusedValues]

\* base64.urlsafe_b64decode: the unused bits of the last character are discarded.
base64url_decode(segment) ==
    [key |-> segment.key, over |-> segment.over, head |-> segment.head,
     nibble |-> segment.last \div Base64UnusedValues]

\* jwt.encode(payload, key, algorithm=ALGO)
jwt_encode(payload, key, low) ==
    [segments |-> 3, alg |-> ALGO, payload |-> payload,
     signature |-> base64url_encode(HS256(key, payload, low))]

\* ttl = ttl_minutes or settings.ACCESS_TTL_MIN (None and 0 are both falsy)
AccessTtl(ttl_minutes) == IF ttl_minutes # 0 THEN ttl_minutes ELSE ACCESS_TTL_MIN

\* A variant of the mint that takes ttl for seconds, not minutes; C17
\* distinguishes the code from it.
create_access_token_TtlSeconds(sub, roles, ttl_minutes, t, low) ==
    jwt_encode([sub |-> sub, roles |-> roles, iat |-> _ts(t),
                exp |-> _ts(t + AccessTtl(ttl_minutes) * TicksPerSecond),
                typ |-> "access"],
               JWT_SECRET, low)

\* create_access_token(sub, roles, ttl_minutes) called at tick t
create_access_token(sub, roles, ttl_minutes, t, low) ==
    jwt_encode([sub |-> sub, roles |-> roles, iat |-> _ts(t),
                exp |-> _ts(t + timedelta_minutes(AccessTtl(ttl_minutes))),
                typ |-> "access"],
               JWT_SECRET, low)

\* A variant of the decoder that still accepts a token during the second of its
\* expiry (exp < now for expired); C20 distinguishes the code from it.
jwt_decode_ExpiryInclusive(tok, key, t) ==
    IF tok.segments # 3 THEN "DecodeError"
    ELSE IF tok.alg # ALGO THEN "InvalidAlgorithmError"
    ELSE IF base64url_decode(tok.signature) # HS256(key, tok.payload, tok.signature.low)
         THEN "InvalidSignatureError"
    ELSE IF tok.payload.iat * TicksPerSecond > t THEN "ImmatureSignatureError"
    ELSE IF (tok.payload.exp + 1) * TicksPerSecond <= t THEN "ExpiredSignatureError"
    ELSE "none"

\* jwt.decode(token, key, algorithms=[ALGO]) at tick t: the error it raises, or "none".
\* The digest of (key, payload) is the one the segment was written from when both
\* agree, so its last 4 bits are the segment's `low`.
jwt_decode(tok, key, t) ==
    IF tok.segments # 3 THEN "DecodeError"
    ELSE IF tok.alg # ALGO THEN "InvalidAlgorithmError"
    ELSE IF base64url_decode(tok.signature) # HS256(key, tok.payload, tok.signature.low)
         THEN "InvalidSignatureError"
    ELSE IF tok.payload.iat * TicksPerSecond > t THEN "ImmatureSignatureError"
    ELSE IF tok.payload.exp * TicksPerSecond <= t THEN "ExpiredSignatureError"
    ELSE "none"

\* A variant that does not look at the type tag; C32 distinguishes the code from it.
verify_access_token_AnyTyp(tok, t) == jwt_decode(tok, JWT_SECRET, t)

\* verify_access_token(token) at tick t: the error raised ("none": the payload is returned)
verify_access_token(tok, t) ==
    LET e == jwt_decode(tok, JWT_SECRET, t)
    IN  IF e # "none" THEN e
        ELSE IF tok.payload.typ # "access" THEN "InvalidTokenError"
        ELSE "none"

\* PyJWT's exception classes: every error of jwt.decode is an InvalidTokenError.
IsInvalidTokenError(e) ==
    e \in {"InvalidTokenError", "DecodeError", "InvalidSignatureError",
           "InvalidAlgorithmError", "ImmatureSignatureError", "ExpiredSignatureError"}

NoArgs == [sub |-> "none", roles |-> <<>>, ttl_minutes |-> 0, at |-> 0]

NoResult == [error |-> "not_called", payload |-> NoPayload, token |-> NoToken]

----------------------------------------------------------------------------
\* The role guard: bearer extraction, user lookup, role lookup, decision.
\* Text that the guard transforms is the sequence of its characters.

Range(seq) == {seq[i] : i \in 1..Len(seq)}

\* The names of table roles, seeded by the migration.
client == <<"c", "l", "i", "e", "n", "t">>
pro == <<"p", "r", "o">>
admin == <<"a", "d", "m", "i", "n">>

\* str.lower, on the upper-case letters in use.
lower_char(c) ==
    CASE c = "A" -> "a" [] c = "B" -> "b" [] c = "P" -> "p" [] c = "R" -> "r" [] OTHER -> c

lower(s) == [i \in 1..Len(s) |-> lower_char(s[i])]

\* str.strip: leading and trailing white space removed.
strip(s) ==
    LET kept == {i \in 1..Len(s) : s[i] # " "}
    IN  IF kept = {} THEN <<>>
        ELSE SubSeq(s, CHOOSE i \in kept : \A j \in kept : i <= j,
                       CHOOSE i \in kept : \A j \in kept : i >= j)

startswith(s, prefix) == Len(s) >= Len(prefix) /\ SubSeq(s, 1, Len(prefix)) = prefix

\* An Authorization header: its text up to and including the first space, and the
\* token that follows it with the white space around it removed (NoToken: nothing).
NoHeader == [text |-> <<>>, credential |-> NoToken]

_extract_bearer_AnyScheme(authorization) ==
    IF authorization.text = <<>>
    THEN [status |-> 401, detail |-> "Missing Bearer token", token |-> NoToken]
    ELSE [status |-> 0, detail |-> "", token |-> authorization.credential]

\* _extract_bearer(authorization): the token, or the 401 raised.
_extract_bearer(authorization) ==
    IF authorization.text = <<>>
       \/ ~startswith(lower(authorization.text), <<"b", "e", "a", "r", "e", "r", " ">>)
    THEN [status |-> 401, detail |-> "Missing Bearer token", token |-> NoToken]
    ELSE [status |-> 0, detail |-> "", token |-> authorization.credential]

\* A variant that reads the subject without verifying the token.
authenticate_NoVerify(authorization, t) ==
    LET b == _extract_bearer(authorization)
    IN  IF b.status # 0
        THEN [status |-> b.status, detail |-> b.detail, user_id |-> "", did |-> {}]
        ELSE [status |-> 0, detail |-> "", user_id |-> b.token.payload.sub, did |-> {}]

\* get_current_user_db up to its SELECT: the subject of the token, or the 401 raised;
\* did: the lookups performed.
authenticate(authorization, t) ==
    LET b == _extract_bearer(authorization)
        e == verify_access_token(b.token, t)
    IN  IF b.status # 0
        THEN [status |-> b.status, detail |-> b.detail, user_id |-> "", did |-> {}]
        ELSE IF e = "ExpiredSignatureError"
        THEN [status |-> 401, detail |-> "access_token_expired", user_id |-> "",
              did |-> {"verify"}]
        ELSE IF IsInvalidTokenError(e)
        THEN [status |-> 401, detail |-> "access_token_invalid", user_id |-> "",
              did |-> {"verify"}]
        ELSE IF b.token.payload.sub = ""
        THEN [status |-> 401, detail |-> "access_token_missing_sub", user_id |-> "",
              did |-> {"verify"}]
        ELSE [status |-> 0, detail |-> "", user_id |-> b.token.payload.sub,
              did |-> {"verify"}]

\* SELECT users WHERE id = :user_id, first(): the user's id, or "" for None.
select_user_Trusting(us, user_id) == user_id

select_user(us, user_id) == IF user_id \in us THEN user_id ELSE ""

\* SELECT role.name JOIN user_roles WHERE user_id = :user_id, as a set.
fetch_user_role_names(tbl, user_id) == {ur[2] : ur \in {x \in tbl : x[1] = user_id}}

\* _get_user_role_names: the same names as a list, ordered by name.
_get_user_role_names(tbl, user_id) ==
    SelectSeq(<<admin, client, pro>>, LAMBDA n : n \in fetch_user_role_names(tbl, user_id))

\* required_set of require_roles(*required).
required_set_KeepEmpty(required) == {lower(strip(r)) : r \in Range(required)}

required_set(required) == {lower(strip(r)) : r \in {x \in Range(required) : x # <<>>}}

\* request.state of request p: the object its memoized role set hangs on.
RequestState_App(p) == "app"

RequestState(p) == p

\* request.state.role_names: None, or the set fetched, with the request that
\* fetched it and the user it was fetched for.
None_role_names == [cached |-> FALSE, names |-> {}, by |-> "none", of |-> "none"]

\* `have` of _dep: the memoized set, or the set fetched now and memoized.
_dep_have_FromToken(p, rq, memo, tbl) ==
    IF memo.cached THEN memo
    ELSE [cached |-> TRUE, names |-> Range(rq.authorization.credential.payload.roles),
          by |-> p, of |-> rq.user_id]

_dep_have(p, rq, memo, tbl) ==
    IF memo.cached THEN memo
    ELSE [cached |-> TRUE, names |-> fetch_user_role_names(tbl, rq.user_id),
          by |-> p, of |-> rq.user_id]

\* missing of _dep.
missing_roles(required, have) == {r \in required_set(required) : r \notin have}

\* What a request in flight holds: the header it carries, its route's guards, the guard
\* it stands at, the subject of its token, the lookups it has performed.
NoRequest == [authorization |-> NoHeader, chain |-> <<>>, k |-> 0, user_id |-> "",
              did |-> {}]

\* A variant of the guard that lets every existing user through.
guard_outcome_AnyUser(authorization, required, us, tbl, t) ==
    LET a == authenticate(authorization, t)
    IN  IF a.status # 0 THEN [status |-> a.status, detail |-> a.detail, missing |-> {}]
        ELSE IF select_user(us, a.user_id) = ""
        THEN [status |-> 401, detail |-> "user_not_found", missing |-> {}]
        ELSE [status |-> 200, detail |-> "", missing |-> {}]

\* What a caller with this header gets from a route guarded by require_roles(*required)
\* when the lookups of the request are all made on the tables us and tbl at time t.
guard_outcome(authorization, required, us, tbl, t) ==
    LET a == authenticate(authorization, t)
        rq == [NoRequest EXCEPT !.authorization = authorization, !.user_id = a.user_id]
        have == _dep_have("p1", rq, None_role_names, tbl)
        missing == missing_roles(required, have.names)
    IN  IF a.status # 0 THEN [status |-> a.status, detail |-> a.detail, missing |-> {}]
        ELSE IF select_user(us, a.user_id) = ""
        THEN [status |-> 401, detail |-> "user_not_found", missing |-> {}]
        ELSE IF missing # {}
        THEN [status |-> 403, detail |-> "missing_roles", missing |-> missing]
        ELSE [status |-> 200, detail |-> "", missing |-> {}]

\* An admin request: "grant" or "revoke", with the path parameters user_id and role and
\* the role_name the handler derives; caller: the subject of its token; have: the role
\* set its guard read for the caller.
NoAdminReq == [op |-> "none", user_id |-> "", role |-> <<>>, role_name |-> <<>>,
               caller |-> "", have |-> {}]

\* The response to an admin request: RoleChangeResponse with status 200, or the error.
NoAdminResp == [p |-> "none", op |-> "none", status |-> 0, detail |-> "", changed |-> FALSE,
                user_id |-> "", role_name |-> <<>>, caller |-> "", have |-> {}]

\* A NULL email.
NoEmail == "none"

\* A row of table users: id, firebase_uid (unique, not null), email (unique, nullable),
\* last_login_at.  NoUserRow: None.
NoUserRow == [id |-> "", firebase_uid |-> "", email |-> NoEmail, last_login_at |-> NULL]

\* A Firebase ID token: whether Google's verification accepts it, and its claims.
NoIdToken == [valid |-> FALSE, uid |-> "", email |-> NoEmail]

\* An exchange request: the claims, the `user` object of its session, whether this
\* request created the user, and the _now_utc() it read for last_login_at.
NoExchangeReq == [claims |-> NoIdToken, user |-> NoUserRow, created |-> FALSE, now |-> 0]

\* The response to an exchange: AuthTokensResponse with status 200, or the error.
\* conflict: the upsert's write was refused by the unique index on email.
NoExchangeResp == [p |-> "none", status |-> 0, detail |-> "", id_token |-> NoIdToken,
                   user_id |-> "", email |-> NoEmail, roles |-> <<>>,
                   access_token |-> NoToken, refresh_token |-> 0, created |-> FALSE,
                   conflict |-> FALSE]

NoDecision == [p |-> "none", status |-> 0, detail |-> "", missing |-> {},
               authorization |-> NoHeader, user_id |-> "", did |-> {}, k |-> 0,
               have |-> None_role_names, required |-> <<>>, held |-> {}]

----------------------------------------------------------------------------
Init ==
    /\ refresh_tokens = <<>>
    /\ clock = 0
    /\ secrets_drawn = 0
    /\ pc = [p \in Procs |-> "idle"]
    /\ req = [p \in Procs |-> NoReq]
    /\ rt = [p \in Procs |-> 0]
    /\ now = [p \in Procs |-> 0]
    /\ new_refresh_raw = [p \in Procs |-> 0]
    /\ targets = [p \in Procs |-> {}]
    /\ horizon = [p \in Procs |-> 0]
    /\ txn = [p \in Procs |-> NoTxn]
    /\ resp = NoResp
    /\ rotated = {}
    /\ loggedOut = {}
    /\ aclock = 0
    /\ token = NoToken
    /\ minted = NoArgs
    /\ verified = NoResult
    /\ users = {}
    /\ user_roles = {}
    /\ wallet = {}
    /\ gpc = [p \in Procs |-> "idle"]
    /\ request = [p \in Procs |-> NoRequest]
    /\ state = [k \in Procs \cup {"app"} |-> None_role_names]
    /\ gresp = NoDecision
    /\ admin_pc = [p \in Procs |-> "idle"]
    /\ admin_req = [p \in Procs |-> NoAdminReq]
    /\ admin_resp = NoAdminResp
    /\ user_rows = {}
    /\ exchange_pc = [p \in Procs |-> "idle"]
    /\ exchange_req = [p \in Procs |-> NoExchangeReq]
    /\ exchange_txn = [p \in Procs |-> NoUserRow]
    /\ exchange_resp = NoExchangeResp
    /\ exchanged = {}

\* Time passes.
Tick ==
    /\ clock < MaxClock
    /\ clock' = clock + 1
    /\ resp' = NoResp
    /\ UNCHANGED <<refresh_tokens, secrets_drawn, pc, req, rt, now, new_refresh_raw,
                   targets, horizon, txn, rotated, loggedOut>>

\* Request p, which asked for q, ends with response r: its session is closed and
\* its locals are gone.
Reply(p, q, r) ==
    /\ pc' = [pc EXCEPT ![p] = "idle"]
    /\ resp' = [r EXCEPT !.req = q]
    /\ req' = [req EXCEPT ![p] = NoReq]
    /\ rt' = [rt EXCEPT ![p] = 0]
    /\ now' = [now EXCEPT ![p] = 0]
    /\ new_refresh_raw' = [new_refresh_raw EXCEPT ![p] = 0]
    /\ targets' = [targets EXCEPT ![p] = {}]
    /\ horizon' = [horizon EXCEPT ![p] = 0]
    /\ txn' = [txn EXCEPT ![p] = NoTxn]

----------------------------------------------------------------------------
\* issue_refresh_token(session, user_id, ttl_days, single_device)

\* A variant of the UPDATE that clears revoked_at on the rows that had it set; C29
\* distinguishes the code from it.
RevokeStaged_Unrevoke(tbl, seen, t) ==
    [upd |-> {i \in Ids(tbl) : tbl[i].revoked_at # NULL}, at |-> NULL, ins |-> <<>>]

\* The UPDATE of single_device, as staged once its row locks are held: rows of the
\* statement's snapshot that are still unrevoked get revoked_at = t.
RevokeStaged(tbl, seen, t) ==
    [upd |-> {i \in seen : tbl[i].revoked_at = NULL}, at |-> t, ins |-> <<>>]

\* session.add(RefreshToken(...)) with expires_at = _now() + timedelta(days=ttl)
IssueStaged(t, user_id, raw, ttl_days, today) ==
    [t EXCEPT !.ins = <<RefreshToken(user_id, _hash_refresh(raw),
                                     today + EffectiveTtl(ttl_days), today)>>]

\* Entry.  With single_device the UPDATE statement is sent and takes its snapshot.
\* Without it the handler only inserts: the row is built, added and committed, and
\* no other session can tell the INSERT from the COMMIT, so this is one step.
issue_refresh_token_begin(p, user_id, ttl_days, single_device) ==
    /\ pc[p] = "idle"
    /\ LET q == [NoReq EXCEPT !.op = "issue", !.user_id = user_id,
                              !.ttl_days = ttl_days, !.single_device = single_device]
       IN  IF single_device
           THEN /\ req' = [req EXCEPT ![p] = q]
                /\ targets' = [targets EXCEPT ![p] = ActiveOfUser(refresh_tokens, user_id)]
                /\ horizon' = [horizon EXCEPT ![p] = Len(refresh_tokens)]
                /\ now' = [now EXCEPT ![p] = clock]
                /\ pc' = [pc EXCEPT ![p] = "issue_update"]
                /\ resp' = NoResp
                /\ UNCHANGED <<refresh_tokens, secrets_drawn, rt, new_refresh_raw, txn>>
           ELSE /\ secrets_drawn' = secrets_drawn + 1
                /\ refresh_tokens' =
                      ApplyTxn(refresh_tokens,
                               IssueStaged(NoTxn, user_id, secrets_drawn + 1, ttl_days, clock))
                /\ Reply(p, q, HttpOk(user_id, secrets_drawn + 1, 0))
    /\ UNCHANGED <<clock, rotated, loggedOut>>

\* The UPDATE returns (its row locks are held), then the new row is built and added.
issue_refresh_token_update(p) ==
    /\ pc[p] = "issue_update"
    /\ ~LockedByOther(p, targets[p])
    /\ secrets_drawn' = secrets_drawn + 1
    /\ new_refresh_raw' = [new_refresh_raw EXCEPT ![p] = secrets_drawn + 1]
    /\ txn' = [txn EXCEPT ![p] =
                 IssueStaged(RevokeStaged(refresh_tokens, targets[p], now[p]),
                             req[p].user_id, secrets_drawn + 1, req[p].ttl_days, clock)]
    /\ pc' = [pc EXCEPT ![p] = "issue_commit"]
    /\ resp' = NoResp
    /\ UNCHANGED <<refresh_tokens, clock, req, rt, now, targets, horizon, rotated,
                   loggedOut>>

\* await session.commit(); return raw, rt
issue_refresh_token_commit(p) ==
    /\ pc[p] = "issue_commit"
    /\ refresh_tokens' = ApplyTxn(refresh_tokens, txn[p])
    /\ Reply(p, req[p], HttpOk(req[p].user_id, new_refresh_raw[p], 0))
    /\ UNCHANGED <<clock, secrets_drawn, rotated, loggedOut>>

----------------------------------------------------------------------------
\* refresh_access_token_from_raw(session, raw_refresh_token, rotate)

\* A variant that looks the secret up before it tests it for emptiness; C30
\* distinguishes the code from it.
refresh_verify_LookupFirst(p, raw, rotate) ==
    /\ pc[p] = "idle"
    /\ LET q == [NoReq EXCEPT !.op = "refresh", !.raw = raw, !.rotate = rotate]
           id == SelectByHash(refresh_tokens, hash_refresh_token(raw))
           detail == IF VerifyDetail(refresh_tokens, id, clock) # "ok"
                     THEN VerifyDetail(refresh_tokens, id, clock)
                     ELSE IF raw = EmptyRaw THEN "missing_refresh_token"
                     ELSE "ok"
       IN  IF detail # "ok"
           THEN /\ Reply(p, q, HttpError(401, detail))
                /\ UNCHANGED secrets_drawn
           ELSE /\ req' = [req EXCEPT ![p] = q]
                /\ rt' = [rt EXCEPT ![p] = id]
                /\ now' = [now EXCEPT ![p] = clock]
                /\ IF rotate
                   THEN /\ secrets_drawn' = secrets_drawn + 1
                        /\ new_refresh_raw' =
                              [new_refresh_raw EXCEPT ![p] = secrets_drawn + 1]
                   ELSE UNCHANGED <<secrets_drawn, new_refresh_raw>>
                /\ pc' = [pc EXCEPT ![p] = "refresh_flush"]
                /\ resp' = NoResp
                /\ UNCHANGED <<targets, horizon, txn>>
    /\ UNCHANGED <<refresh_tokens, clock, rotated, loggedOut>>

\* Lines 100-155, up to the await of session.commit(): the empty check, the SELECT
\* by hash, `now`, the three checks and the access token; with rotate a new secret
\* is drawn, the loaded row is marked revoked and its successor added to the session.
refresh_verify(p, raw, rotate) ==
    /\ pc[p] = "idle"
    /\ LET q == [NoReq EXCEPT !.op = "refresh", !.raw = raw, !.rotate = rotate]
           id == SelectByHash(refresh_tokens, hash_refresh_token(raw))
           detail == IF raw = EmptyRaw THEN "missing_refresh_token"
                     ELSE VerifyDetail(refresh_tokens, id, clock)
       IN  IF detail # "ok"
           THEN /\ Reply(p, q, HttpError(401, detail))
                /\ UNCHANGED secrets_drawn
           ELSE /\ req' = [req EXCEPT ![p] = q]
                /\ rt' = [rt EXCEPT ![p] = id]
                /\ now' = [now EXCEPT ![p] = clock]
                /\ IF rotate
                   THEN /\ secrets_drawn' = secrets_drawn + 1
                        /\ new_refresh_raw' =
                              [new_refresh_raw EXCEPT ![p] = secrets_drawn + 1]
                   ELSE UNCHANGED <<secrets_drawn, new_refresh_raw>>
                /\ pc' = [pc EXCEPT ![p] = "refresh_flush"]
                /\ resp' = NoResp
                /\ UNCHANGED <<targets, horizon, txn>>
    /\ UNCHANGED <<refresh_tokens, clock, rotated, loggedOut>>

\* A variant of the rotation that adds the successor without revoking the loaded
\* row; C2 distinguishes the code from it.
RotateStaged_NoRevoke(tbl, id, t, raw, rotate) ==
    IF rotate
    THEN [upd |-> {}, at |-> t,
          ins |-> <<RefreshToken(tbl[id].user_id, hash_refresh_token(raw),
                                 t + REFRESH_TTL_DAYS, t)>>]
    ELSE NoTxn

\* A variant of the rotation that gives the successor to another user; C3
\* distinguishes the code from it.
RotateStaged_OtherUser(tbl, id, t, raw, rotate) ==
    IF rotate
    THEN [upd |-> {id}, at |-> t,
          ins |-> <<RefreshToken(CHOOSE u \in Users : u # tbl[id].user_id,
                                 hash_refresh_token(raw), t + REFRESH_TTL_DAYS, t)>>]
    ELSE NoTxn

\* A variant of the rotation that ignores the rotate flag; C7 distinguishes the
\* code from it.
RotateStaged_Always(tbl, id, t, raw, rotate) ==
    [upd |-> {id}, at |-> t,
     ins |-> <<RefreshToken(tbl[id].user_id, hash_refresh_token(raw),
                            t + REFRESH_TTL_DAYS, t)>>]

\* A variant of the flush on an autocommit connection: the UPDATE of the loaded
\* row is visible to every session at once, only the INSERT waits for the commit.
\* C4 distinguishes the code from it.
refresh_flush_autocommit(p) ==
    /\ pc[p] = "refresh_flush"
    /\ req[p].rotate => ~LockedByOther(p, {rt[p]})
    /\ refresh_tokens' =
          IF req[p].rotate
          THEN ApplyTxn(refresh_tokens, [upd |-> {rt[p]}, at |-> now[p], ins |-> <<>>])
          ELSE refresh_tokens
    /\ txn' = [txn EXCEPT ![p] =
                 IF req[p].rotate
                 THEN [upd |-> {}, at |-> now[p],
                       ins |-> <<RefreshToken(refresh_tokens[rt[p]].user_id,
                                              hash_refresh_token(new_refresh_raw[p]),
                                              now[p] + REFRESH_TTL_DAYS, now[p])>>]
                 ELSE NoTxn]
    /\ pc' = [pc EXCEPT ![p] = "refresh_commit"]
    /\ resp' = NoResp
    /\ UNCHANGED <<clock, secrets_drawn, req, rt, now, new_refresh_raw,
                   targets, horizon, rotated, loggedOut>>

\* What lines 138-155 leave in the session.  With rotate: rt.revoked_at = now and
\* the successor row for the same user, expiring REFRESH_TTL_DAYS after `now`.
\* Without rotate: nothing.
RotateStaged(tbl, id, t, raw, rotate) ==
    IF rotate
    THEN [upd |-> {id}, at |-> t,
          ins |-> <<RefreshToken(tbl[id].user_id, hash_refresh_token(raw),
                                 t + REFRESH_TTL_DAYS, t)>>]
    ELSE NoTxn

\* session.commit() flushes the session: UPDATE ... WHERE id = rt.id (waits for
\* the row lock), then INSERT.  Nothing is visible to other sessions yet.
refresh_flush(p) ==
    /\ pc[p] = "refresh_flush"
    /\ req[p].rotate => ~LockedByOther(p, {rt[p]})
    /\ txn' = [txn EXCEPT ![p] = RotateStaged(refresh_tokens, rt[p], now[p],
                                               new_refresh_raw[p], req[p].rotate)]
    /\ pc' = [pc EXCEPT ![p] = "refresh_commit"]
    /\ resp' = NoResp
    /\ UNCHANGED <<refresh_tokens, clock, secrets_drawn, req, rt, now, new_refresh_raw,
                   targets, horizon, rotated, loggedOut>>

\* COMMIT, then return access, new_refresh_raw, str(user_id), roles
refresh_commit(p) ==
    /\ pc[p] = "refresh_commit"
    /\ refresh_tokens' = ApplyTxn(refresh_tokens, txn[p])
    /\ Reply(p, req[p], HttpOk(refresh_tokens[rt[p]].user_id, new_refresh_raw[p], 0))
    /\ rotated' = IF req[p].rotate
                  THEN rotated \cup {<<req[p].raw, new_refresh_raw[p]>>}
                  ELSE rotated
    /\ UNCHANGED <<clock, secrets_drawn, loggedOut>>

----------------------------------------------------------------------------
\* revoke_all_user_refresh(session, user_id), called by auth_logout

\* The UPDATE statement is sent and takes its snapshot.
revoke_all_user_refresh_begin(p, user_id) ==
    /\ pc[p] = "idle"
    /\ req' = [req EXCEPT ![p] = [NoReq EXCEPT !.op = "logout", !.user_id = user_id]]
    /\ targets' = [targets EXCEPT ![p] = ActiveOfUser(refresh_tokens, user_id)]
    /\ horizon' = [horizon EXCEPT ![p] = Len(refresh_tokens)]
    /\ now' = [now EXCEPT ![p] = clock]
    /\ pc' = [pc EXCEPT ![p] = "logout_update"]
    /\ resp' = NoResp
    /\ UNCHANGED <<refresh_tokens, clock, secrets_drawn, rt, new_refresh_raw, txn,
                   rotated, loggedOut>>

\* The UPDATE returns with its row locks held; res.rowcount is the rows it changed.
revoke_all_user_refresh_update(p) ==
    /\ pc[p] = "logout_update"
    /\ ~LockedByOther(p, targets[p])
    /\ txn' = [txn EXCEPT ![p] = RevokeStaged(refresh_tokens, targets[p], now[p])]
    /\ pc' = [pc EXCEPT ![p] = "logout_commit"]
    /\ resp' = NoResp
    /\ UNCHANGED <<refresh_tokens, clock, secrets_drawn, req, rt, now, new_refresh_raw,
                   targets, horizon, rotated, loggedOut>>

\* await session.commit(); return res.rowcount
revoke_all_user_refresh_commit(p) ==
    /\ pc[p] = "logout_commit"
    /\ refresh_tokens' = ApplyTxn(refresh_tokens, txn[p])
    /\ loggedOut' = loggedOut \cup
          {i \in 1..horizon[p] : refresh_tokens[i].user_id = req[p].user_id}
    /\ Reply(p, req[p], HttpOk(req[p].user_id, 0, Cardinality(txn[p].upd)))
    /\ UNCHANGED <<clock, secrets_drawn, rotated>>

----------------------------------------------------------------------------
\* The store fails while a session has work to commit: the exception leaves the
\* handler, get_db closes the session and the transaction is rolled back.
StoreFailure(p) ==
    /\ pc[p] \in {"issue_commit", "refresh_commit", "logout_commit"}
    /\ Reply(p, req[p], HttpError(500, "store_error"))
    /\ UNCHANGED <<refresh_tokens, clock, secrets_drawn, rotated, loggedOut>>

----------------------------------------------------------------------------
\* Raw strings a client can present: the empty string, any secret drawn so far,
\* and a string that is no token.
Presentable == {EmptyRaw, NotAToken} \cup (1..secrets_drawn)

TtlDaysArgs == {0}

\* Requests arrive at any time, handlers advance in any order; a handler that
\* draws a secret runs only while fewer than `cap` secrets have been drawn.
\* A step of the refresh-token handlers: access tokens and the clock they are
\* checked against play no part in it.
RefreshStep(A) == A /\ UNCHANGED <<accessVars, guardVars, adminVars, exchangeVars>>

Next ==
    \/ RefreshStep(Tick)
    \/ /\ secrets_drawn < MaxSecrets
       /\ \E p \in Procs, u \in Users, d \in TtlDaysArgs, sd \in BOOLEAN :
             RefreshStep(issue_refresh_token_begin(p, u, d, sd))
    \/ /\ secrets_drawn < MaxSecrets
       /\ \E p \in Procs : RefreshStep(issue_refresh_token_update(p))
    \/ \E p \in Procs : RefreshStep(issue_refresh_token_commit(p))
    \/ \E p \in Procs, raw \in Presentable : RefreshStep(refresh_verify(p, raw, FALSE))
    \/ /\ secrets_drawn < MaxSecrets
       /\ \E p \in Procs, raw \in Presentable : RefreshStep(refresh_verify(p, raw, TRUE))
    \/ \E p \in Procs : RefreshStep(refresh_flush(p))
    \/ \E p \in Procs : RefreshStep(refresh_commit(p))
    \/ \E p \in Procs, u \in Users : RefreshStep(revoke_all_user_refresh_begin(p, u))
    \/ \E p \in Procs : RefreshStep(revoke_all_user_refresh_update(p))
    \/ \E p \in Procs : RefreshStep(revoke_all_user_refresh_commit(p))
    \/ \E p \in Procs : RefreshStep(StoreFailure(p))

Spec == Init /\ [][Next]_vars

\* Clients that only log in on one more device and refresh: no logout, no
\* single-device issue.  Rotation chains get one more secret than under Spec.
NextRotation ==
    \/ RefreshStep(Tick)
    \/ /\ secrets_drawn < MaxRotationSecrets
       /\ \E p \in Procs, u \in Users, d \in TtlDaysArgs :
             RefreshStep(issue_refresh_token_begin(p, u, d, FALSE))
    \/ \E p \in Procs, raw \in Presentable : RefreshStep(refresh_verify(p, raw, FALSE))
    \/ /\ secrets_drawn < MaxRotationSecrets
       /\ \E p \in Procs, raw \in Presentable : RefreshStep(refresh_verify(p, raw, TRUE))
    \/ \E p \in Procs : RefreshStep(refresh_flush(p))
    \/ \E p \in Procs : RefreshStep(refresh_commit(p))
    \/ \E p \in Procs : RefreshStep(StoreFailure(p))

SpecRotation == Init /\ [][NextRotation]_vars

----------------------------------------------------------------------------
\* The records themselves: every operation of core/jwt.py that writes one, with
\* issue_refresh_token called with a ttl_days argument as well as without.  What
\* is looked at holds record by record, so one user's sessions are enough.

MaxRecordSecrets == 2

\* ttl_days: None (0 here, as falsy), a positive and a negative number of days.
IssueTtlArgs == {0, 2, -1}

\* revoke_refresh_token(session, row), row being the record of id loaded just now:
\* UPDATE ... WHERE id = row.id and COMMIT if the row is not revoked, else nothing.
revoke_refresh_token(p, id) ==
    /\ pc[p] = "idle"
    /\ id \in Ids(refresh_tokens)
    /\ ~LockedByOther(p, {id})
    /\ LET row == refresh_tokens[id]
           q == [NoReq EXCEPT !.op = "revoke", !.user_id = row.user_id]
       IN  IF row.revoked_at = NULL
           THEN /\ refresh_tokens' =
                      ApplyTxn(refresh_tokens, [upd |-> {id}, at |-> clock, ins |-> <<>>])
                /\ Reply(p, q, HttpOk(row.user_id, 0, 1))
           ELSE /\ UNCHANGED refresh_tokens
                /\ Reply(p, q, HttpOk(row.user_id, 0, 0))
    /\ UNCHANGED <<clock, secrets_drawn, rotated, loggedOut>>

\* verify_refresh_token(session, user_id, raw_token): one SELECT by user_id and hash,
\* then the checks; the row is returned ("ok") or ValueError(detail) raised.
verify_refresh_token(p, user_id, raw_token) ==
    /\ pc[p] = "idle"
    /\ LET q == [NoReq EXCEPT !.op = "verify", !.user_id = user_id, !.raw = raw_token]
           hit == {i \in Ids(refresh_tokens) :
                     /\ refresh_tokens[i].user_id = user_id
                     /\ refresh_tokens[i].token_hash = _hash_refresh(raw_token)}
           row == IF hit = {} THEN 0 ELSE CHOOSE i \in hit : \A j \in hit : i <= j
           detail == IF row = 0 THEN "unknown"
                     ELSE IF refresh_tokens[row].revoked_at # NULL THEN "revoked"
                     ELSE IF refresh_tokens[row].expires_at <= clock THEN "expired"
                     ELSE "ok"
       IN  Reply(p, q, [NoResp EXCEPT !.detail = detail])
    /\ UNCHANGED <<refresh_tokens, clock, secrets_drawn, rotated, loggedOut>>

NextRecords ==
    \/ RefreshStep(Tick)
    \/ /\ secrets_drawn < MaxRecordSecrets
       /\ \E p \in Procs, u \in {"u1"}, d \in IssueTtlArgs, sd \in BOOLEAN :
             RefreshStep(issue_refresh_token_begin(p, u, d, sd))
    \/ /\ secrets_drawn < MaxRecordSecrets
       /\ \E p \in Procs : RefreshStep(issue_refresh_token_update(p))
    \/ \E p \in Procs : RefreshStep(issue_refresh_token_commit(p))
    \/ /\ secrets_drawn < MaxRecordSecrets
       /\ \E p \in Procs, raw \in 1..secrets_drawn : RefreshStep(refresh_verify(p, raw, TRUE))
    \/ \E p \in Procs : RefreshStep(refresh_flush(p))
    \/ \E p \in Procs : RefreshStep(refresh_commit(p))
    \/ \E p \in Procs, u \in {"u1"} : RefreshStep(revoke_all_user_refresh_begin(p, u))
    \/ \E p \in Procs : RefreshStep(revoke_all_user_refresh_update(p))
    \/ \E p \in Procs : RefreshStep(revoke_all_user_refresh_commit(p))
    \/ \E p \in Procs, id \in 1..MaxRecordSecrets : RefreshStep(revoke_refresh_token(p, id))
    \/ \E p \in Procs, u \in Users, raw \in 1..secrets_drawn :
          RefreshStep(verify_refresh_token(p, u, raw))

SpecRecords == Init /\ [][NextRecords]_vars

----------------------------------------------------------------------------
\* Access tokens in a caller's hands: minted, possibly altered, verified at any time.

Subjects == Users
\* The role sequences given to the mint: none, and two names of which one comes twice.
RoleLists == {<<>>, <<client, pro, client>>}
AccessTtlArgs == {-1, 0, 1, 2}
\* Values of the last 4 bits of a digest, and characters a caller may write.
LowNibbles == {0, 5}
ReplacementChars == {0, 1, 20}

\* A step about access tokens only.
AccessStep(A) == A /\ UNCHANGED <<refreshVars, guardVars, adminVars, exchangeVars>>

\* token = create_access_token(sub, roles, ttl_minutes)
MintAccess(sub, roles, ttl_minutes, low) ==
    /\ aclock <= MaxMintTicks
    /\ token' = create_access_token(sub, roles, ttl_minutes, aclock, low)
    /\ minted' = [sub |-> sub, roles |-> roles, ttl_minutes |-> ttl_minutes, at |-> aclock]
    /\ verified' = NoResult
    /\ UNCHANGED aclock

\* The caller rewrites a character of the signature segment that is not the last.
TamperHead ==
    /\ token.segments = 3
    /\ token.signature.head = "minted"
    /\ token' = [token EXCEPT !.signature.head = "changed"]
    /\ verified' = NoResult
    /\ UNCHANGED <<aclock, minted>>

\* The caller replaces the last character of the signature segment by another one.
TamperLast(c) ==
    /\ token.segments = 3
    /\ c # token.signature.last
    /\ token' = [token EXCEPT !.signature.last = c]
    /\ verified' = NoResult
    /\ UNCHANGED <<aclock, minted>>

\* The caller sends something that is not a JWT.
Malform ==
    /\ token # NoToken
    /\ token # Malformed
    /\ token' = Malformed
    /\ verified' = NoResult
    /\ UNCHANGED <<aclock, minted>>

\* payload = verify_access_token(token)
VerifyAccess ==
    /\ token # NoToken
    /\ LET e == verify_access_token(token, aclock)
       IN  verified' = [error |-> e, token |-> token,
                        payload |-> IF e = "none" THEN token.payload ELSE NoPayload]
    /\ UNCHANGED <<aclock, token, minted>>

\* Half a second passes.
TickAccess ==
    /\ aclock < MaxAccessTicks
    /\ aclock' = aclock + 1
    /\ verified' = NoResult
    /\ UNCHANGED <<token, minted>>

NextAccess ==
    \/ \E sub \in Subjects, roles \in RoleLists, ttl \in AccessTtlArgs, low \in LowNibbles :
          AccessStep(MintAccess(sub, roles, ttl, low))
    \/ AccessStep(TamperHead)
    \/ \E c \in ReplacementChars : AccessStep(TamperLast(c))
    \/ AccessStep(Malform)
    \/ AccessStep(VerifyAccess)
    \/ AccessStep(TickAccess)

SpecAccess == Init /\ [][NextAccess]_vars

----------------------------------------------------------------------------
\* Guarded requests against the tables users and user_roles, while logins hand out
\* access tokens and roles are granted and revoked.  A request resolves
\* get_current_user_db once, then the require_roles dependencies of its route in turn.

MaxWallet == 2

\* The arguments of the require_roles dependencies a route may declare.
\* Each is the sequence of the argument tuples of its guards: require_roles("pro");
\* require_roles(" Pro ") then require_roles(" ", "admin"); require_roles() then
\* require_roles("").
Chains ==
    { << <<pro>> >>,
      << << <<" ", "P", "r", "o", " ">> >>, << <<" ">>, admin >> >>,
      << <<>>, << <<>> >> >> }

\* Tokens signed with JWT_SECRET that create_access_token did not write: the claims
\* of an access token for u1 with the type tag "refresh", and with none (typ "none").
OtherTypTokens ==
    {jwt_encode([create_access_token("u1", <<admin, pro>>, 0, 0, 0).payload EXCEPT !.typ = ty],
                JWT_SECRET, 0) : ty \in {"refresh", "none"}}

\* The headers a caller may send with a token it was handed.
Authorizations ==
    {NoHeader, [text |-> <<"B", "e", "a", "r", "e", "r">>, credential |-> NoToken],
     [text |-> <<"B", "e", "a", "r", "e", "r", " ">>, credential |-> NoToken]}
    \cup {[text |-> <<"B", "e", "a", "r", "e", "r", " ">>, credential |-> tok] :
            tok \in OtherTypTokens}
    \cup {[text |-> x, credential |-> tok] :
            x \in {<<"B", "e", "a", "r", "e", "r", " ">>, <<"b", "e", "a", "r", "e", "r", " ">>,
                   <<"B", "a", "s", "i", "c", " ">>},
            tok \in wallet}

\* A step of the guard only.
GuardStep(A) == A /\ UNCHANGED <<refreshVars, accessVars, adminVars, exchangeVars>>

\* The decision a step reports: k is the guard that decided (0: none was reached),
\* `have` the role set it used, `held` what user_roles holds for the subject now.
Decision(p, rq, st, detail, missing, have, required) ==
    [p |-> p, status |-> st, detail |-> detail, missing |-> missing,
     authorization |-> rq.authorization, user_id |-> rq.user_id, did |-> rq.did,
     k |-> rq.k, have |-> have, required |-> required,
     held |-> fetch_user_role_names(user_roles, rq.user_id)]

\* The response leaves: the request and its request.state are gone.
GuardReply(p, decision) ==
    /\ gresp' = decision
    /\ gpc' = [gpc EXCEPT ![p] = "idle"]
    /\ request' = [request EXCEPT ![p] = NoRequest]
    /\ state' = [state EXCEPT ![RequestState(p)] = None_role_names]

\* /auth/exchange for user u: the user is created with the default role if new, and
\* an access token is minted with the roles read from user_roles.
Login(u) ==
    LET tbl == IF u \in users THEN user_roles ELSE user_roles \cup {<<u, client>>}
        tok == create_access_token(u, _get_user_role_names(tbl, u), 0, aclock, 0)
    IN  /\ tok \in wallet \/ Cardinality(wallet) < MaxWallet
        /\ users' = users \cup {u}
        /\ user_roles' = tbl
        /\ wallet' = wallet \cup {tok}
        /\ gresp' = NoDecision
        /\ UNCHANGED <<gpc, request, state>>

\* grant_role commits the link (user, role).
GrantCommit(u, role_name) ==
    /\ u \in users
    /\ <<u, role_name>> \notin user_roles
    /\ user_roles' = user_roles \cup {<<u, role_name>>}
    /\ gresp' = NoDecision
    /\ UNCHANGED <<users, wallet, gpc, request, state>>

\* revoke_role commits the deletion of the link (user, role).
RevokeCommit(u, role_name) ==
    /\ <<u, role_name>> \in user_roles
    /\ user_roles' = user_roles \ {<<u, role_name>>}
    /\ gresp' = NoDecision
    /\ UNCHANGED <<users, wallet, gpc, request, state>>

\* The row of user u is deleted; its user_roles rows go with it (ON DELETE CASCADE).
DeleteUser(u) ==
    /\ u \in users
    /\ users' = users \ {u}
    /\ user_roles' = {ur \in user_roles : ur[1] # u}
    /\ gresp' = NoDecision
    /\ UNCHANGED <<wallet, gpc, request, state>>

\* A request arrives: _extract_bearer and verify_access_token run before the first await.
GuardBegin(p, authorization, chain) ==
    /\ gpc[p] = "idle"
    /\ LET a == authenticate(authorization, aclock)
           rq == [authorization |-> authorization, chain |-> chain, k |-> 0,
                  user_id |-> a.user_id, did |-> a.did]
       IN  IF a.status # 0
           THEN GuardReply(p, Decision(p, rq, a.status, a.detail, {}, None_role_names, <<>>))
           ELSE /\ request' = [request EXCEPT ![p] = rq]
                /\ gpc' = [gpc EXCEPT ![p] = "load_user"]
                /\ gresp' = NoDecision
                /\ UNCHANGED state
    /\ UNCHANGED <<users, user_roles, wallet>>

\* SELECT the user of the token's subject.
LoadUser(p) ==
    /\ gpc[p] = "load_user"
    /\ LET rq == [request[p] EXCEPT !.did = @ \cup {"user"}, !.k = 1]
       IN  IF select_user(users, rq.user_id) = ""
           THEN GuardReply(p, Decision(p, rq, 401, "user_not_found", {}, None_role_names, <<>>))
           ELSE /\ request' = [request EXCEPT ![p] = rq]
                /\ gpc' = [gpc EXCEPT ![p] = "guard"]
                /\ gresp' = NoDecision
                /\ UNCHANGED state
    /\ UNCHANGED <<users, user_roles, wallet>>

\* _dep of the k-th require_roles dependency of the route.
Guard(p) ==
    /\ gpc[p] = "guard"
    /\ LET memo == state[RequestState(p)]
           have == _dep_have(p, request[p], memo, user_roles)
           rq == IF memo.cached THEN request[p]
                 ELSE [request[p] EXCEPT !.did = @ \cup {"roles"}]
           required == rq.chain[rq.k]
           missing == missing_roles(required, have.names)
       IN  IF missing # {}
           THEN GuardReply(p, Decision(p, rq, 403, "missing_roles", missing, have, required))
           ELSE IF rq.k = Len(rq.chain)
           THEN GuardReply(p, Decision(p, rq, 200, "", {}, have, required))
           ELSE /\ request' = [request EXCEPT ![p] = [rq EXCEPT !.k = @ + 1]]
                /\ state' = [state EXCEPT ![RequestState(p)] = have]
                /\ gresp' = Decision(p, rq, 0, "", {}, have, required)
                /\ UNCHANGED gpc
    /\ UNCHANGED <<users, user_roles, wallet>>

NextGuard ==
    \/ \E u \in Users : GuardStep(Login(u))
    \/ \E u \in Users : GuardStep(GrantCommit(u, pro))
    \/ \E u \in Users : GuardStep(RevokeCommit(u, pro))
    \/ \E u \in Users : GuardStep(DeleteUser(u))
    \/ \E p \in Procs, authorization \in Authorizations, chain \in Chains :
          GuardStep(GuardBegin(p, authorization, chain))
    \/ \E p \in Procs : GuardStep(LoadUser(p))
    \/ \E p \in Procs : GuardStep(Guard(p))

SpecGuard == Init /\ [][NextGuard]_vars

----------------------------------------------------------------------------
\* The admin routes: POST and DELETE /admin/users/{user_id}/roles/{role}.  Each request
\* has its own session; a SELECT reads what is committed when it runs.  The
\* require_roles("admin") dependency is resolved in the step the request arrives.

\* Table roles, as seeded.
roles == {client, pro, admin}

\* The role path parameters sent.
RoleParams == {<<" ", "P", "r", "o", " ">>, <<"x">>}

\* A step of the admin routes only.
AdminStep(A) == A /\ UNCHANGED <<refreshVars, accessVars, exchangeVars>>

AdminReply(p, st, detail, changed) ==
    /\ admin_resp' = [p |-> p, op |-> admin_req[p].op, status |-> st, detail |-> detail,
                      changed |-> changed, user_id |-> admin_req[p].user_id,
                      role_name |-> admin_req[p].role_name, caller |-> admin_req[p].caller,
                      have |-> admin_req[p].have]
    /\ admin_pc' = [admin_pc EXCEPT ![p] = "idle"]
    /\ admin_req' = [admin_req EXCEPT ![p] = NoAdminReq]

AdminGoto(p, label) ==
    /\ admin_pc' = [admin_pc EXCEPT ![p] = label]
    /\ admin_resp' = NoAdminResp
    /\ UNCHANGED admin_req

\* The first administrator gets its role outside the application: every grant
\* through the route needs a caller that already holds "admin".
SeedAdmin(u) ==
    /\ u \in users
    /\ <<u, admin>> \notin user_roles
    /\ user_roles' = user_roles \cup {<<u, admin>>}
    /\ admin_resp' = NoAdminResp
    /\ UNCHANGED <<users, admin_pc, admin_req, wallet, gpc, request, state, gresp>>

\* A login, as seen from the admin routes.
AdminLogin(u) == Login(u) /\ admin_resp' = NoAdminResp /\ UNCHANGED <<admin_pc, admin_req>>

\* A request arrives at grant_role or revoke_role: the guard, then role_name.
AdminBegin(p, authorization, op, user_id, role) ==
    /\ admin_pc[p] = "idle"
    /\ LET g == guard_outcome(authorization, <<admin>>, users, user_roles, aclock)
           caller == authenticate(authorization, aclock).user_id
           q == [op |-> op, user_id |-> user_id, role |-> role,
                 role_name |-> lower(strip(role)), caller |-> caller,
                 have |-> fetch_user_role_names(user_roles, caller)]
       IN  IF g.status # 200
           THEN /\ admin_resp' = [NoAdminResp EXCEPT !.p = p, !.op = op, !.status = g.status,
                                                     !.detail = g.detail, !.user_id = user_id,
                                                     !.role_name = q.role_name,
                                                     !.caller = caller, !.have = q.have]
                /\ UNCHANGED <<admin_pc, admin_req>>
           ELSE /\ admin_req' = [admin_req EXCEPT ![p] = q]
                /\ admin_pc' = [admin_pc EXCEPT ![p] = "select_user"]
                /\ admin_resp' = NoAdminResp
    /\ UNCHANGED <<users, user_roles, wallet, gpc, request, state, gresp>>

\* SELECT the target user; 404 if there is none.
AdminSelectUser(p) ==
    /\ admin_pc[p] = "select_user"
    /\ IF select_user(users, admin_req[p].user_id) = ""
       THEN AdminReply(p, 404, "user_not_found", FALSE)
       ELSE AdminGoto(p, "select_role")
    /\ UNCHANGED <<users, user_roles, wallet, gpc, request, state, gresp>>

\* SELECT the role by name; 404 if there is none.
AdminSelectRole(p) ==
    /\ admin_pc[p] = "select_role"
    /\ IF admin_req[p].role_name \notin roles
       THEN AdminReply(p, 404, "role_not_found", FALSE)
       ELSE AdminGoto(p, IF admin_req[p].op = "grant" THEN "select_link" ELSE "delete")
    /\ UNCHANGED <<users, user_roles, wallet, gpc, request, state, gresp>>

\* grant_role: SELECT the link; if there is one the answer is changed=False.
grant_role_select_link(p) ==
    /\ admin_pc[p] = "select_link"
    /\ IF <<admin_req[p].user_id, admin_req[p].role_name>> \in user_roles
       THEN AdminReply(p, 200, "", FALSE)
       ELSE AdminGoto(p, "commit")
    /\ UNCHANGED <<users, user_roles, wallet, gpc, request, state, gresp>>

\* What the INSERT of db.add + commit() does when the pair is already in the table.
\* The primary key (user_id, role_id) refuses it: IntegrityError, which nothing
\* catches, and the request ends as a 500.
insert_link(tbl, link) ==
    IF link \in tbl THEN [status |-> 500, detail |-> "IntegrityError", tbl |-> tbl]
    ELSE [status |-> 200, detail |-> "", tbl |-> tbl \cup {link}]

\* grant_role: db.add(UserRole(...)) and commit.
grant_role_commit(p) ==
    /\ admin_pc[p] = "commit"
    /\ LET ins == insert_link(user_roles, <<admin_req[p].user_id, admin_req[p].role_name>>)
       IN  /\ user_roles' = ins.tbl
           /\ AdminReply(p, ins.status, ins.detail, ins.status = 200)
    /\ UNCHANGED <<users, wallet, gpc, request, state, gresp>>

\* revoke_role: DELETE the link and commit; changed is rowcount > 0.
revoke_role_delete(p) ==
    /\ admin_pc[p] = "delete"
    /\ LET link == <<admin_req[p].user_id, admin_req[p].role_name>>
       IN  /\ user_roles' = user_roles \ {link}
           /\ AdminReply(p, 200, "", link \in user_roles)
    /\ UNCHANGED <<users, wallet, gpc, request, state, gresp>>

NextAdmin ==
    \/ \E u \in Users : AdminStep(AdminLogin(u))
    \/ AdminStep(SeedAdmin("u1"))
    \/ \E p \in Procs, tok \in wallet, op \in {"grant", "revoke"}, u \in Users,
          role \in RoleParams :
          AdminStep(AdminBegin(p, [text |-> <<"B", "e", "a", "r", "e", "r", " ">>,
                                   credential |-> tok], op, u, role))
    \/ \E p \in Procs : AdminStep(AdminSelectUser(p))
    \/ \E p \in Procs : AdminStep(AdminSelectRole(p))
    \/ \E p \in Procs : AdminStep(grant_role_select_link(p))
    \/ \E p \in Procs : AdminStep(grant_role_commit(p))
    \/ \E p \in Procs : AdminStep(revoke_role_delete(p))

SpecAdmin == Init /\ [][NextAdmin]_vars

----------------------------------------------------------------------------
\* POST /auth/exchange: verify the Firebase ID token, upsert the user, read its roles,
\* mint the access token and issue a refresh token.  Each request has its own session.
\* Of the users columns, email_verified is left out: it is written with the email and
\* no constraint bears on it.

MaxExchanges == 3

\* The ID tokens presented: one that Google's verification rejects, accepted ones
\* for two Firebase identities, with and without an email claim, and an accepted one
\* whose claims have neither user_id nor sub (uid "").
IdTokens ==
    {[valid |-> FALSE, uid |-> "f1", email |-> "a"],
     [valid |-> TRUE, uid |-> "", email |-> "a"],
     [valid |-> TRUE, uid |-> "f1", email |-> "a"],
     [valid |-> TRUE, uid |-> "f1", email |-> NoEmail],
     [valid |-> TRUE, uid |-> "f2", email |-> "a"],
     [valid |-> TRUE, uid |-> "f2", email |-> NoEmail]}

\* default_roles of the route.
default_roles == <<client>>

\* verify_firebase_id_token_or_401: the claims, or the 401 raised.
verify_firebase_id_token_or_401_Lenient(id_token) ==
    [status |-> 0, detail |-> "", claims |-> id_token]

verify_firebase_id_token_or_401(id_token) ==
    IF id_token.valid THEN [status |-> 0, detail |-> "", claims |-> id_token]
    ELSE [status |-> 401, detail |-> "Invalid Firebase ID token", claims |-> NoIdToken]

\* _extract_claims: uid and email of the claims, or the ValueError raised.
_extract_claims_NoCheck(claims) == [error |-> "", uid |-> claims.uid, email |-> claims.email]

_extract_claims(claims) ==
    IF claims.uid = "" THEN [error |-> "ValueError", uid |-> "", email |-> NoEmail]
    ELSE [error |-> "", uid |-> claims.uid, email |-> claims.email]

\* SELECT users WHERE firebase_uid = :uid, first().
select_by_firebase_uid(rows, uid) ==
    IF \E r \in rows : r.firebase_uid = uid
    THEN CHOOSE r \in rows : r.firebase_uid = uid
    ELSE NoUserRow

\* default=uuid.uuid4 of User.id: an id no row has.
uuid4(used) ==
    LET pool == <<"u1", "u2">>
        free == {i \in 1..Len(pool) : pool[i] \notin used}
    IN  IF free = {} THEN "" ELSE pool[CHOOSE i \in free : \A j \in free : i <= j]

\* The rows that refuse `row` under the unique index on firebase_uid.
uid_conflicts_None(rows, row) == {}

uid_conflicts(rows, row) == {r \in rows : r.id # row.id /\ r.firebase_uid = row.firebase_uid}

\* The rows that refuse `row` under the unique index on email (NULLs never collide).
email_conflicts(rows, row) ==
    {r \in rows : r.id # row.id /\ row.email # NoEmail /\ r.email = row.email}

\* The rows other sessions have inserted and not committed: a write that collides with
\* one of them waits for that session to end.
Uncommitted(p) == {exchange_txn[q] : q \in Procs \ {p}} \ {NoUserRow}

\* wanted of the upsert, and the user_roles rows it inserts for a new user.
wanted_role_names_NoDefaults(default_role_names, extra_role_names) == Range(extra_role_names)

wanted_role_names(default_role_names, extra_role_names) ==
    Range(default_role_names) \cup Range(extra_role_names)

\* A step of the exchange only.
ExchangeStep(A) ==
    A /\ UNCHANGED <<accessVars, adminVars, clock, pc, req, rt, now, new_refresh_raw, targets,
                     horizon, txn, resp, rotated, loggedOut, wallet, gpc, request, state, gresp>>

\* A day passes between two steps of the exchanges.
ExchangeTick ==
    /\ clock < MaxClock
    /\ clock' = clock + 1
    /\ exchange_resp' = NoExchangeResp
    /\ UNCHANGED <<accessVars, adminVars, guardVars, refresh_tokens, secrets_drawn, pc, req, rt,
                   now, new_refresh_raw, targets, horizon, txn, resp, rotated, loggedOut,
                   user_rows, exchange_pc, exchange_req, exchange_txn, exchanged>>

ExchangeReply(p, r) ==
    /\ exchange_resp' = [r EXCEPT !.p = p, !.id_token = exchange_req[p].claims]
    /\ exchange_pc' = [exchange_pc EXCEPT ![p] = "idle"]
    /\ exchange_req' = [exchange_req EXCEPT ![p] = NoExchangeReq]
    /\ exchange_txn' = [exchange_txn EXCEPT ![p] = NoUserRow]

ExchangeGoto(p, label, user, created) ==
    /\ exchange_pc' = [exchange_pc EXCEPT ![p] = label]
    /\ exchange_req' = [exchange_req EXCEPT ![p].user = user, ![p].created = created]
    /\ exchange_resp' = NoExchangeResp

\* The request arrives: the token is verified, then the upsert extracts the claims (a
\* ValueError is caught by nothing: 500), SELECTs the user by uid and, with its result,
\* reads _now_utc() for last_login_at.
ExchangeBegin(p, id_token) ==
    /\ exchange_pc[p] = "idle"
    /\ secrets_drawn + Cardinality({q \in Procs : exchange_pc[q] # "idle"}) < MaxExchanges
    /\ LET v == verify_firebase_id_token_or_401(id_token)
           c == _extract_claims(v.claims)
           user == select_by_firebase_uid(user_rows, c.uid)
       IN  IF v.status # 0
           THEN /\ exchange_resp' = [NoExchangeResp EXCEPT !.p = p, !.status = v.status,
                                                          !.detail = v.detail,
                                                          !.id_token = id_token]
                /\ UNCHANGED <<exchange_pc, exchange_req>>
           ELSE IF c.error # ""
           THEN /\ exchange_resp' = [NoExchangeResp EXCEPT !.p = p, !.status = 500,
                                                          !.detail = c.error,
                                                          !.id_token = id_token]
                /\ UNCHANGED <<exchange_pc, exchange_req>>
           ELSE /\ exchange_req' = [exchange_req EXCEPT ![p] =
                                       [claims |-> v.claims, user |-> user, created |-> FALSE,
                                        now |-> clock]]
                /\ exchange_pc' = [exchange_pc EXCEPT ![p] =
                                      IF user = NoUserRow THEN "flush" ELSE "commit_update"]
                /\ exchange_resp' = NoExchangeResp
    /\ UNCHANGED <<user_rows, users, user_roles, refresh_tokens, secrets_drawn, exchange_txn,
                   exchanged>>

\* New user: session.add(user) and flush().  The INSERT waits for a session holding an
\* uncommitted row with the same firebase_uid or email; a committed one refuses it, and
\* the IntegrityError of flush() is outside the try of the upsert: the request ends
\* as a 500.
upsert_flush(p) ==
    /\ exchange_pc[p] = "flush"
    /\ LET c == exchange_req[p].claims
           used == {r.id : r \in user_rows \cup Uncommitted(p)}
           row == [id |-> uuid4(used), firebase_uid |-> c.uid, email |-> c.email,
                   last_login_at |-> exchange_req[p].now]
           byUid == uid_conflicts(user_rows, row)
           byEmail == email_conflicts(user_rows, row)
       IN  /\ row.id # ""
           /\ uid_conflicts(Uncommitted(p), row) = {}
           /\ email_conflicts(Uncommitted(p), row) = {}
           /\ IF byUid \cup byEmail # {}
              THEN ExchangeReply(p, [NoExchangeResp EXCEPT !.status = 500,
                                       !.detail = "IntegrityError",
                                       !.conflict = (byUid = {})])
              ELSE /\ exchange_txn' = [exchange_txn EXCEPT ![p] = row]
                   /\ ExchangeGoto(p, "commit_insert", row, TRUE)
    /\ UNCHANGED <<user_rows, users, user_roles, refresh_tokens, secrets_drawn, exchanged>>

\* New user: the roles named by `wanted` that exist are linked (ON CONFLICT DO NOTHING),
\* and commit() publishes the user and its links.
upsert_commit_insert(p) ==
    /\ exchange_pc[p] = "commit_insert"
    /\ LET row == exchange_txn[p]
           links == {<<row.id, n>> : n \in wanted_role_names(default_roles, <<>>) \cap roles}
       IN  /\ user_rows' = user_rows \cup {row}
           /\ users' = users \cup {row.id}
           /\ user_roles' = user_roles \cup links
           /\ exchange_txn' = [exchange_txn EXCEPT ![p] = NoUserRow]
           /\ ExchangeGoto(p, "issue", row, TRUE)
    /\ UNCHANGED <<refresh_tokens, secrets_drawn, exchanged>>

\* Existing user: the email of the claims is written if there is one and it differs
\* from the loaded one, last_login_at is written, and commit() flushes the one UPDATE
\* that carries both.  A refused UPDATE is caught:
\* rollback(), which expires `user`; the caller's read of user.id then has to load
\* it, which an AsyncSession cannot do from an attribute access (MissingGreenlet):
\* the request ends as a 500.
upsert_commit_update(p) ==
    /\ exchange_pc[p] = "commit_update"
    /\ LET c == exchange_req[p].claims
           user == exchange_req[p].user
           changed == c.email # NoEmail /\ user.email # c.email
           cur == CHOOSE r \in user_rows : r.id = user.id
           stamp == exchange_req[p].now
           new == IF changed THEN [cur EXCEPT !.email = c.email, !.last_login_at = stamp]
                  ELSE [cur EXCEPT !.last_login_at = stamp]
           obj == IF changed THEN [user EXCEPT !.email = c.email, !.last_login_at = stamp]
                  ELSE [user EXCEPT !.last_login_at = stamp]
       IN  /\ changed => email_conflicts(Uncommitted(p), new) = {}
           /\ IF changed /\ email_conflicts(user_rows, new) # {}
              THEN /\ ExchangeReply(p, [NoExchangeResp EXCEPT !.status = 500,
                                          !.detail = "MissingGreenlet",
                                          !.conflict = TRUE])
                   /\ UNCHANGED user_rows
              ELSE /\ user_rows' = (user_rows \ {cur}) \cup {new}
                   /\ exchange_txn' = exchange_txn
                   /\ ExchangeGoto(p, "issue", obj, FALSE)
    /\ UNCHANGED <<users, user_roles, refresh_tokens, secrets_drawn, exchanged>>

\* The roles of the user are read, the access token minted, the refresh token issued
\* (single_device=False: one INSERT and its commit), and the tokens returned.
exchange_issue(p) ==
    /\ exchange_pc[p] = "issue"
    /\ LET user == exchange_req[p].user
           role_names == _get_user_role_names(user_roles, user.id)
           raw == secrets_drawn + 1
       IN  /\ refresh_tokens' = ApplyTxn(refresh_tokens, IssueStaged(NoTxn, user.id, raw, 0, clock))
           /\ secrets_drawn' = raw
           /\ exchanged' = exchanged \cup {<<exchange_req[p].claims.uid, user.id>>}
           /\ ExchangeReply(p, [NoExchangeResp EXCEPT
                                  !.status = 200, !.user_id = user.id, !.email = user.email,
                                  !.roles = role_names,
                                  !.access_token =
                                      create_access_token(user.id, role_names, 0, aclock, 0),
                                  !.refresh_token = raw,
                                  !.created = exchange_req[p].created])
    /\ UNCHANGED <<user_rows, users, user_roles>>

NextExchange ==
    \/ ExchangeTick
    \/ \E p \in Procs, id_token \in IdTokens : ExchangeStep(ExchangeBegin(p, id_token))
    \/ \E p \in Procs : ExchangeStep(upsert_flush(p))
    \/ \E p \in Procs : ExchangeStep(upsert_commit_insert(p))
    \/ \E p \in Procs : ExchangeStep(upsert_commit_update(p))
    \/ \E p \in Procs : ExchangeStep(exchange_issue(p))

SpecExchange == Init /\ [][NextExchange]_vars

----------------------------------------------------------------------------
\* Vocabulary of the properties.

\* A record is usable iff revoked_at IS NULL AND expires_at > now.
Usable(row, t) == row.revoked_at = NULL /\ row.expires_at > t

\* The committed row a raw secret hashes to (0: none), in table tbl.
RowOf(tbl, raw) == SelectByHash(tbl, _hash_refresh(raw))

UsableRaw(tbl, raw, t) == RowOf(tbl, raw) # 0 /\ Usable(tbl[RowOf(tbl, raw)], t)

\* The step just taken verified a presented refresh secret and answered at once
\* (every 401 of refresh is such an answer): no request moved, resp' is the answer.
VerifyAnswered == pc' = pc /\ resp'.req.op = "refresh"

\* The step just taken verified the secret of request p successfully.
VerifyPassed(p) == pc[p] = "idle" /\ pc'[p] = "refresh_flush"

\* The step just taken is the commit of p's rotation / its failure.
RotationCommitted(p) ==
    pc[p] = "refresh_commit" /\ req[p].rotate /\ pc'[p] = "idle" /\ resp'.status = 200

----------------------------------------------------------------------------
\* C1 (as claimed): two rotations that present the same secret never both
\* succeed: an old refresh secret has at most one successor, so never two usable
\* successor tokens.
C1_AtMostOneWinner ==
    \A a \in rotated, b \in rotated :
        (a[1] = b[1] /\ a # b) =>
            ~(UsableRaw(refresh_tokens, a[2], clock) /\ UsableRaw(refresh_tokens, b[2], clock))

\* C2: once a rotation of secret S has committed, every refresh that presents S
\* afterwards, with rotate true or false, is answered 401 refresh_revoked; none
\* passes verification.
C2_RotatedSecretIsDead ==
    [][ /\ \A p \in Procs : VerifyPassed(p) => req'[p].raw \notin {pr[1] : pr \in rotated}
        /\ (VerifyAnswered /\ resp'.req.raw \in {pr[1] : pr \in rotated})
              => (resp'.status = 401 /\ resp'.detail = "refresh_revoked") ]_vars

\* C2 witness: a rotated secret was presented again and refused as revoked.
C2_Witness ==
    /\ resp.req.op = "refresh"
    /\ resp.detail = "refresh_revoked"
    /\ resp.req.raw \in {pr[1] : pr \in rotated}

\* C3: a successful rotating refresh returns a new secret whose committed row
\* belongs to the user of the rotated row (the user named in the response), and a
\* refresh that presents the new secret while its row is unrevoked and unexpired
\* passes verification.
C3_SuccessorWorks ==
    [][ /\ \A p \in Procs : RotationCommitted(p) =>
              LET n == RowOf(refresh_tokens', resp'.refresh_token)
              IN  /\ resp'.refresh_token # 0
                  /\ n # 0
                  /\ refresh_tokens'[n].user_id = refresh_tokens[rt[p]].user_id
                  /\ resp'.sub = refresh_tokens[rt[p]].user_id
                  /\ RowOf(refresh_tokens, req[p].raw) = rt[p]
        /\ (/\ VerifyAnswered
            /\ resp'.req.raw \in {pr[2] : pr \in rotated}
            /\ UsableRaw(refresh_tokens, resp'.req.raw, clock))
              => FALSE ]_vars

\* C3 witness: the successor secret of a rotation has itself been rotated, so a
\* refresh presenting it succeeded.
C3_Witness == \E a \in rotated, b \in rotated : a[2] = b[1]

\* C4: rotation is atomic in the committed store.  The successor of a rotation in
\* flight is absent until its commit; the commit revokes the old row and inserts
\* the successor in one step and touches no other row; a failed commit and every
\* earlier step of the handler leave the store as it was; and in every committed
\* state each rotated secret's row is revoked with its successor present, and each
\* revoked row is the row of a rotated secret whose successor is present.
C4_RotationAtomic ==
    [][ /\ \A p \in Procs :
              (pc[p] \in {"refresh_flush", "refresh_commit"} /\ req[p].rotate) =>
                 /\ RowOf(refresh_tokens, new_refresh_raw[p]) = 0
                 /\ (pc'[p] # pc[p] /\ pc'[p] # "idle") => refresh_tokens' = refresh_tokens
                 /\ (pc'[p] = "idle" /\ resp'.status # 200) =>
                       refresh_tokens' = refresh_tokens
                 /\ (pc'[p] = "idle" /\ resp'.status = 200) =>
                       /\ refresh_tokens'[rt[p]].revoked_at # NULL
                       /\ RowOf(refresh_tokens', new_refresh_raw[p]) = Len(refresh_tokens) + 1
                       /\ Len(refresh_tokens') = Len(refresh_tokens) + 1
                       /\ \A i \in Ids(refresh_tokens) \ {rt[p]} :
                             refresh_tokens'[i] = refresh_tokens[i]
        /\ \A pr \in rotated' :
              /\ RowOf(refresh_tokens', pr[2]) # 0
              /\ refresh_tokens'[RowOf(refresh_tokens', pr[1])].revoked_at # NULL
        /\ \A i \in Ids(refresh_tokens') :
              refresh_tokens'[i].revoked_at # NULL =>
                 \E pr \in rotated' : /\ RowOf(refresh_tokens', pr[1]) = i
                                      /\ RowOf(refresh_tokens', pr[2]) # 0 ]_vars

\* C4 witness: the commit of a rotation failed and the presented secret's row is
\* still unrevoked, with no row added for it.
C4_Witness ==
    /\ resp.req.op = "refresh" /\ resp.req.rotate
    /\ resp.status = 500
    /\ RowOf(refresh_tokens, resp.req.raw) # 0
    /\ refresh_tokens[RowOf(refresh_tokens, resp.req.raw)].revoked_at = NULL
    /\ resp.req.raw \notin {pr[1] : pr \in rotated}

C6_CheckOrder ==
    (resp.req.op = "refresh" /\ resp.status = 401 /\ resp.req.raw # EmptyRaw) =>
        LET id == RowOf(refresh_tokens, resp.req.raw)
        IN  /\ (id = 0) <=> (resp.detail = "refresh_unknown")
            /\ (id # 0 /\ refresh_tokens[id].revoked_at # NULL)
                  <=> (resp.detail = "refresh_revoked")
            /\ (resp.detail = "refresh_expired") <=>
                  (/\ id # 0
                   /\ refresh_tokens[id].revoked_at = NULL
                   /\ refresh_tokens[id].expires_at <= clock)

\* C6 witness: a secret whose row is both revoked and expired was refused as
\* revoked.
C6_Witness ==
    /\ resp.req.op = "refresh"
    /\ resp.detail = "refresh_revoked"
    /\ refresh_tokens[RowOf(refresh_tokens, resp.req.raw)].revoked_at # NULL
    /\ refresh_tokens[RowOf(refresh_tokens, resp.req.raw)].expires_at <= clock

\* C7: a refresh with rotate = false writes nothing: none of its steps changes a
\* refresh row or stages a write, its 200 response carries no new refresh secret,
\* and the presented secret is as usable after the response as before it.
C7_NoRotateNoWrite ==
    [][ \A p \in Procs :
           (pc[p] \in {"refresh_flush", "refresh_commit"} /\ ~req[p].rotate) =>
              /\ txn'[p] = NoTxn
              /\ pc'[p] # pc[p] =>
                    /\ refresh_tokens' = refresh_tokens
                    /\ secrets_drawn' = secrets_drawn
              /\ (pc'[p] = "idle" /\ resp'.status = 200) =>
                    /\ resp'.refresh_token = 0
                    /\ resp'.req.raw = req[p].raw
                    /\ UsableRaw(refresh_tokens, req[p].raw, clock)
                          = UsableRaw(refresh_tokens', req[p].raw, clock') ]_vars

\* C7 witness: a refresh without rotation succeeded for a secret that a second
\* request, verified with the same secret, is still using, and the secret is
\* still usable.
C7_Witness ==
    /\ resp.req.op = "refresh" /\ ~resp.req.rotate /\ resp.status = 200
    /\ resp.refresh_token = 0
    /\ UsableRaw(refresh_tokens, resp.req.raw, clock)
    /\ \E q \in Procs : pc[q] = "refresh_flush" /\ req[q].raw = resp.req.raw

\* C8: once a logout of a user has committed, every row that was committed for
\* that user when the logout began is revoked and stays revoked, and every refresh
\* that presents the secret of such a row is refused with refresh_revoked; none
\* passes verification.
C8_LogoutKillsIssuedSecrets ==
    [][ /\ \A i \in loggedOut' : refresh_tokens'[i].revoked_at # NULL
        /\ \A p \in Procs :
              VerifyPassed(p) => RowOf(refresh_tokens, req'[p].raw) \notin loggedOut
        /\ (VerifyAnswered /\ RowOf(refresh_tokens, resp'.req.raw) \in loggedOut)
              => (resp'.status = 401 /\ resp'.detail = "refresh_revoked") ]_vars

\* C8 witness: the only secret ever drawn was logged out and, presented
\* afterwards, refused as revoked.
C8_Witness ==
    /\ resp.req.op = "refresh"
    /\ resp.detail = "refresh_revoked"
    /\ RowOf(refresh_tokens, resp.req.raw) \in loggedOut
    /\ secrets_drawn = 1

\* The rows a committing logout of p found: rows of its user, committed when its
\* UPDATE began, whose revoked_at is NULL.
C9_Found(p) ==
    {i \in 1..horizon[p] : /\ refresh_tokens[i].user_id = req[p].user_id
                           /\ refresh_tokens[i].revoked_at = NULL}

LogoutCommitted(p) == pc[p] = "logout_commit" /\ pc'[p] = "idle" /\ resp'.status = 200

\* C9 (amended): revoke_all_user_refresh sets revoked_at on exactly the rows of the
\* user that were committed when its UPDATE began and have revoked_at NULL, expired
\* or not; it changes no other row (other users' rows, revoked rows, rows committed
\* later), adds none, and returns the number of rows it revoked, 0 when none.
C9_RevokesEveryUnrevoked ==
    [][ \A p \in Procs : LogoutCommitted(p) =>
           /\ \A i \in C9_Found(p) : refresh_tokens'[i].revoked_at = now[p]
           /\ \A i \in Ids(refresh_tokens) \ C9_Found(p) :
                 refresh_tokens'[i] = refresh_tokens[i]
           /\ Len(refresh_tokens') = Len(refresh_tokens)
           /\ resp'.revoked = Cardinality(C9_Found(p))
           /\ now[p] # NULL ]_vars

\* C9 witness: a logout reported one revoked row, and that row had already
\* expired when it was revoked.
C9_Witness ==
    /\ resp.req.op = "logout" /\ resp.status = 200 /\ resp.revoked = 1
    /\ secrets_drawn = 1
    /\ Len(refresh_tokens) = 1
    /\ refresh_tokens[1].user_id = resp.req.user_id
    /\ refresh_tokens[1].revoked_at # NULL
    /\ refresh_tokens[1].expires_at <= refresh_tokens[1].revoked_at

\* C9 (as claimed): revokeAll changes exactly the rows of the user that are usable
\* (revoked_at NULL and expires_at > now), leaves expired rows alone and returns
\* the number of rows that were usable before the call.
C9_RevokesOnlyUsable ==
    [][ \A p \in Procs : LogoutCommitted(p) =>
           LET usable == {i \in C9_Found(p) : Usable(refresh_tokens[i], now[p])}
           IN  /\ \A i \in usable : refresh_tokens'[i].revoked_at # NULL
               /\ \A i \in Ids(refresh_tokens) \ usable :
                     refresh_tokens'[i] = refresh_tokens[i]
               /\ resp'.revoked = Cardinality(usable) ]_vars

\* C10 (as claimed): when a single_device issue commits, the row it inserted is
\* the only usable row of that user.
C10_OnlyUsableRowAtCommit ==
    [][ \A p \in Procs :
           (pc[p] = "issue_commit" /\ pc'[p] = "idle" /\ resp'.status = 200) =>
              \A i \in Ids(refresh_tokens') :
                 (/\ refresh_tokens'[i].user_id = req[p].user_id
                  /\ Usable(refresh_tokens'[i], clock'))
                    => i = Len(refresh_tokens') ]_vars

----------------------------------------------------------------------------
\* Properties of access tokens (SpecAccess).


\* verify_access_token was just called on the token exactly as the last mint
\* returned it.
VerifiedAsMinted ==
    /\ verified.error # "not_called"
    /\ verified.token = create_access_token(minted.sub, minted.roles, minted.ttl_minutes,
                                            minted.at, verified.token.signature.low)

\* C17: a token minted with ttl > 0 and verified unaltered within its TTL window
\* (from the second it was minted, for ttl minutes of whole seconds) is accepted,
\* and the payload returned has the subject and, as a set, the roles given to
\* create_access_token, with typ "access".
C17_RoundTrip ==
    (/\ VerifiedAsMinted
     /\ minted.ttl_minutes > 0
     /\ _ts(minted.at) <= _ts(aclock)
     /\ _ts(aclock) < _ts(minted.at) + minted.ttl_minutes * SecondsPerMinute)
       => /\ verified.error = "none"
          /\ verified.payload.sub = minted.sub
          /\ Range(verified.payload.roles) = Range(minted.roles)
          /\ verified.payload.typ = "access"

\* C17 witness: a token with two roles, minted with ttl = 2, was accepted a
\* minute after it was minted.
C17_Witness ==
    /\ VerifiedAsMinted
    /\ minted.ttl_minutes = 2
    /\ minted.roles # <<>>
    /\ _ts(aclock) >= _ts(minted.at) + SecondsPerMinute
    /\ verified.error = "none"

\* C18 (as claimed): a token minted with ttl <= 0, zero included, is refused by
\* verify_access_token as expired.
C18_NonPositiveTtlExpired ==
    (VerifiedAsMinted /\ minted.ttl_minutes <= 0)
       => verified.error = "ExpiredSignatureError"

\* C19 (as claimed): a token that is malformed, or whose signature segment is
\* not the text written at mint, is refused by verify_access_token with an
\* invalid-token error.
C19_TamperedRejected ==
    (/\ verified.error # "not_called"
     /\ \/ verified.token.segments # 3
        \/ verified.token.signature #
              base64url_encode(HS256(JWT_SECRET, verified.token.payload,
                                     verified.token.signature.low)))
       => /\ verified.error # "none"
          /\ IsInvalidTokenError(verified.error)

\* C20: an unaltered token with issued-at second iat and expiry second exp,
\* verified at second t, is accepted when iat <= t < exp (t = iat included) and
\* refused as expired when t >= exp (t = exp included).
C20_ExpiryBoundary ==
    (/\ verified.error # "not_called"
     /\ verified.token.segments = 3
     /\ verified.token.signature =
           base64url_encode(HS256(JWT_SECRET, verified.token.payload,
                                  verified.token.signature.low)))
       => LET t == _ts(aclock)
              iat == verified.token.payload.iat
              exp == verified.token.payload.exp
          IN  /\ (iat <= t /\ t < exp) => verified.error = "none"
              /\ t >= exp => verified.error = "ExpiredSignatureError"

\* C20 witness: a token valid for a minute was refused as expired in the very
\* second of its expiry.
C20_Witness ==
    /\ verified.error = "ExpiredSignatureError"
    /\ verified.token.payload.exp > verified.token.payload.iat
    /\ aclock = verified.token.payload.exp * TicksPerSecond

----------------------------------------------------------------------------
\* The role guard.

\* The step just taken was the decision of a require_roles guard.
GuardDecided == gresp.p # "none" /\ gresp.k >= 1 /\ gresp.status \in {0, 200, 403}

\* The roles embedded in the token the decided request carried.
TokenRoles == Range(gresp.authorization.credential.payload.roles)

\* C11: a role granted or revoked in user_roles takes effect on the very next guarded
\* request made with an access token minted before the change: the first guard of a
\* request lets it through exactly when every required role is in user_roles at that
\* time, whatever the token says.
C11_LiveRoles ==
    (GuardDecided /\ gresp.k = 1)
        => ((gresp.status # 403) <=> (required_set(gresp.required) \subseteq gresp.held))

\* A token minted without "pro" passes the pro guard after the grant.
C11_Witness ==
    /\ GuardDecided
    /\ gresp.status = 200
    /\ gresp.required = <<pro>>
    /\ pro \notin TokenRoles
    /\ pro \in gresp.held

\* The header that presents token tok.
Bearer(tok) == [text |-> <<"B", "e", "a", "r", "e", "r", " ">>, credential |-> tok]

\* Tokens handed out for the same user with different roles embedded.
Siblings(a, b) ==
    /\ a \in wallet /\ b \in wallet
    /\ a.payload.sub = b.payload.sub
    /\ Range(a.payload.roles) # Range(b.payload.roles)

\* C12: the guard's decision does not depend on the roles embedded in the token: two
\* valid tokens of the same subject that differ in their roles get the same outcome
\* from every guard, on the same tables.
\* The decision of a request's first guard is that outcome, when its user still exists.
C12_TokenRolesIgnored ==
    /\ \A a \in wallet, b \in wallet :
          Siblings(a, b)
              => \A chain \in Chains : \A k \in 1..Len(chain) :
                    guard_outcome(Bearer(a), chain[k], users, user_roles, aclock)
                        = guard_outcome(Bearer(b), chain[k], users, user_roles, aclock)
    /\ (GuardDecided /\ gresp.k = 1 /\ gresp.user_id \in users)
          => LET o == guard_outcome(gresp.authorization, gresp.required, users, user_roles,
                                    aclock)
             IN  /\ o.status = (IF gresp.status = 0 THEN 200 ELSE gresp.status)
                 /\ o.missing = gresp.missing

\* A token minted with "pro" is refused by the pro guard after the revocation, as
\* its sibling minted without "pro" would be.
C12_Witness ==
    /\ GuardDecided
    /\ gresp.status = 403
    /\ gresp.required = <<pro>>
    /\ pro \in TokenRoles
    /\ \E b \in wallet : Siblings(gresp.authorization.credential, b)
    /\ guard_outcome(gresp.authorization, <<pro>>, users, user_roles, aclock).status = 403

\* Trimmed and lower-cased, as the claim has it.
Normalized(names) == {lower(strip(r)) : r \in names}

\* The decision is the one that the required names `wanted` call for, given the role
\* set the request holds: through iff all are held, else 403 naming those not held.
DecidedOn(wanted) ==
    /\ (gresp.status # 403) <=> (wanted \subseteq gresp.have.names)
    /\ gresp.status = 403 => gresp.missing = wanted \ gresp.have.names
    /\ gresp.status # 403 => gresp.missing = {}

\* C13 as stated: the guard authorizes iff every required role name, trimmed and
\* lower-cased, is in the held set; otherwise it answers 403 naming exactly the
\* required roles not held; an empty required set authorizes every authenticated user.
C13_AllRequiredHeld ==
    GuardDecided
        => /\ DecidedOn(Normalized(Range(gresp.required)))
           /\ gresp.required = <<>> => gresp.status # 403

\* C13, amended: the same, of the required names that are not the empty string as
\* written; a name made of white space only counts, as the empty name.
C13_AllNonEmptyRequiredHeld ==
    GuardDecided
        => /\ DecidedOn(Normalized(Range(gresp.required) \ {<<>>}))
           /\ Range(gresp.required) \subseteq {<<>>} => gresp.status # 403

\* require_roles(" ", "admin") refuses a user who holds neither, naming both, after
\* require_roles(" Pro ") let the user through for holding "pro".
C13_Witness ==
    /\ GuardDecided
    /\ gresp.status = 403
    /\ gresp.k = 2
    /\ gresp.required = << <<" ">>, admin >>
    /\ gresp.missing = {<<>>, admin}
    /\ pro \in gresp.have.names

\* The step just taken answered a request without a bearer credential as such,
\* having looked nothing up.
MissingBearer ==
    /\ gresp.status = 401
    /\ gresp.detail = "Missing Bearer token"
    /\ gresp.did = {}

\* C14 as stated: a request whose Authorization header is absent or does not start
\* with 'Bearer ' is answered 401 'Missing Bearer token', and no token
\* verification, user lookup or role lookup is performed for it.
C14_NoBearerNoLookup ==
    /\ \A p \in Procs :
          gpc[p] # "idle"
              => startswith(request[p].authorization.text, <<"B", "e", "a", "r", "e", "r", " ">>)
    /\ (gresp.p # "none"
          /\ ~startswith(gresp.authorization.text, <<"B", "e", "a", "r", "e", "r", " ">>))
          => MissingBearer

\* C14, amended: the same, the scheme being compared without regard to letter case.
C14_NoBearerAnyCaseNoLookup ==
    /\ \A p \in Procs :
          gpc[p] # "idle"
              => startswith(lower(request[p].authorization.text),
                            <<"b", "e", "a", "r", "e", "r", " ">>)
    /\ (gresp.p # "none"
          /\ ~startswith(lower(gresp.authorization.text),
                         <<"b", "e", "a", "r", "e", "r", " ">>))
          => MissingBearer

\* A token that a login handed out, sent under the scheme Basic, was not looked at.
C14_Witness ==
    /\ gresp.p # "none"
    /\ gresp.authorization.text = <<"B", "a", "s", "i", "c", " ">>
    /\ gresp.authorization.credential \in wallet
    /\ gresp.authorization.credential.payload.sub \in users
    /\ MissingBearer

\* C15: a request with a valid token whose subject is not in table users when the
\* guard looks the user up is answered 401 user_not_found; one whose subject is
\* there goes on to its guards.
C15_UnknownSubjectRejected ==
    [][\A p \in Procs :
          (gpc[p] = "load_user" /\ gpc'[p] # "load_user")
              => IF request[p].user_id \notin users
                 THEN /\ gresp'.p = p
                      /\ gresp'.status = 401
                      /\ gresp'.detail = "user_not_found"
                      /\ gpc'[p] = "idle"
                 ELSE gpc'[p] = "guard" /\ gresp' = NoDecision]_vars

\* A token that still verifies was refused because its user's row is gone.
C15_Witness ==
    /\ gresp.status = 401
    /\ gresp.detail = "user_not_found"
    /\ gresp.authorization.credential \in wallet
    /\ verify_access_token(gresp.authorization.credential, aclock) = "none"
    /\ gresp.user_id \notin users
    /\ gresp.did = {"verify", "user"}

\* C16: a memoized role set is scoped to one request: it hangs on the state of a
\* request that is at its guards, was fetched by that request for its own user, and
\* is gone when the request is answered; the role set a guard decides on was
\* fetched by the deciding request itself, for its own user.
C16_MemoPerRequest ==
    /\ \A key \in DOMAIN state :
          state[key].cached
              => /\ key \in Procs
                 /\ gpc[key] = "guard"
                 /\ state[key].by = key
                 /\ state[key].of = request[key].user_id
    /\ GuardDecided
          => /\ gresp.have.cached
             /\ gresp.have.by = gresp.p
             /\ gresp.have.of = gresp.user_id
             /\ "roles" \in gresp.did

\* The second guard of a request decided on the set its first guard had fetched,
\* which user_roles no longer holds, while another user's request had its own set
\* memoized.
C16_Witness ==
    /\ GuardDecided
    /\ gresp.k = 2
    /\ gresp.have.names # gresp.held
    /\ gresp.have.by = gresp.p
    /\ \E q \in Procs \ {gresp.p} : state[q].cached /\ state[q].of # gresp.user_id

----------------------------------------------------------------------------
\* Refresh records.

\* What is stored for a secret is its HMAC-SHA256 under the pepper, and the secret
\* is one that secrets.token_urlsafe produced.
DigestOfDrawnSecret(h) ==
    /\ h[1] = "hmac_sha256"
    /\ h[2] = REFRESH_TOKEN_PEPPER
    /\ h[3] \in 1..secrets_drawn

\* C27: every refresh record, committed or still in a session, created by issue or
\* by rotation, stores HMAC(pepper, raw secret) and never the raw secret that was
\* returned to the caller; the pepper is not the signing secret.
C27_OnlyDigestStored ==
    /\ \A i \in Ids(refresh_tokens) : DigestOfDrawnSecret(refresh_tokens[i].token_hash)
    /\ \A p \in Procs : \A k \in 1..Len(txn[p].ins) :
          DigestOfDrawnSecret(txn[p].ins[k].token_hash)
    /\ REFRESH_TOKEN_PEPPER # JWT_SECRET

\* A rotation has just returned a new secret, whose record holds its digest, next
\* to the record of the secret it replaced.
C27_Witness ==
    /\ rotated # {}
    /\ resp.status = 200
    /\ resp.refresh_token > 0
    /\ \E i \in Ids(refresh_tokens), j \in Ids(refresh_tokens) :
          /\ i # j
          /\ refresh_tokens[i].token_hash[3] = resp.refresh_token
          /\ refresh_tokens[j].token_hash[3] = resp.req.raw

\* C30: a refresh call with an empty refresh token is answered 401
\* missing_refresh_token in its first step, before any SELECT; the answer carries
\* no access token and no refresh secret, no secret is drawn, and no record is
\* changed or staged.
C30_EmptyRefreshRejected ==
    [][(resp'.req.op = "refresh" /\ resp'.req.raw = EmptyRaw)
          => /\ resp'.status = 401
             /\ resp'.detail = "missing_refresh_token"
             /\ resp'.sub = "none"
             /\ resp'.refresh_token = 0
             /\ pc' = pc
             /\ refresh_tokens' = refresh_tokens
             /\ secrets_drawn' = secrets_drawn
             /\ txn' = txn]_vars

\* An empty refresh token was refused while the store held a usable record.
C30_Witness ==
    /\ resp.req.op = "refresh"
    /\ resp.req.raw = EmptyRaw
    /\ resp.detail = "missing_refresh_token"
    /\ \E i \in Ids(refresh_tokens) :
          refresh_tokens[i].revoked_at = NULL /\ refresh_tokens[i].expires_at > clock

\* Every refresh record, committed or still in a session.
AllRecords ==
    {refresh_tokens[i] : i \in Ids(refresh_tokens)}
        \cup UNION {{txn[p].ins[k] : k \in 1..Len(txn[p].ins)} : p \in Procs}

\* C28: for every refresh record, created by issue_refresh_token with any ttl_days
\* argument or the default, or by rotation, expires_at is strictly later than the
\* record's issuance time.
C28_ExpiresAfterIssuance == \A r \in AllRecords : r.expires_at > r.issued_at

\* C29: once a record's revoked_at is set, no operation sets it back to NULL, and
\* no record is removed: a revoked record is never usable again.
C29_RevokedStaysRevoked ==
    [][\A i \in Ids(refresh_tokens) :
          /\ i \in Ids(refresh_tokens')
          /\ refresh_tokens[i].revoked_at # NULL
                => /\ refresh_tokens'[i].revoked_at # NULL
                   /\ ~Usable(refresh_tokens'[i], clock')]_vars

\* A record revoked on an earlier day is still revoked after a later operation
\* for its user has been answered.
C29_Witness ==
    /\ resp.status = 200
    /\ resp.req.op \in {"logout", "issue", "revoke"}
    /\ \E i \in Ids(refresh_tokens) :
          /\ refresh_tokens[i].user_id = resp.req.user_id
          /\ refresh_tokens[i].revoked_at # NULL
          /\ refresh_tokens[i].revoked_at < clock

----------------------------------------------------------------------------
\* Role administration.

\* The pair an admin response is about.
RespLink(r) == <<r.user_id, r.role_name>>

\* The handler of an admin request got past its 404s: the user and the role exist.
Concluded(r) == r.op # "none" /\ r.status \notin {401, 403, 404}

\* C25: for an existing user and role, grant_role answers changed=true and adds the
\* pair when it is not held, and answers changed=false and leaves the store as it is
\* when it is held; revoke_role answers changed=true and removes the pair when held,
\* changed=false and nothing removed when not; so a second application of the same
\* grant or revoke leaves the state of the first.
C25_GrantRevokeChanged ==
    [][Concluded(admin_resp') =>
         LET link == RespLink(admin_resp')
             held == link \in user_roles
         IN  /\ admin_resp'.status = 200
             /\ admin_resp'.op = "grant" =>
                    /\ admin_resp'.changed = ~held
                    /\ user_roles' = user_roles \cup {link}
             /\ admin_resp'.op = "revoke" =>
                    /\ admin_resp'.changed = held
                    /\ user_roles' = user_roles \ {link}]_vars

\* C26: a grant of a pair that is already in user_roles is a no-op and not an error,
\* also when two grant_role requests for the same pair run concurrently: no grant for
\* an existing user and role ends in an error.
C26_NoGrantFails == Concluded(admin_resp) /\ admin_resp.op = "grant" => admin_resp.status = 200

----------------------------------------------------------------------------
\* The exchange.

\* C21: every exchange that presents the same external subject id returns the same
\* local user id; no state holds two user rows with the same external subject id; and
\* the external subject id of a row never changes.
C21_StableUserId ==
    [][/\ \A x, y \in exchanged' : x[1] = y[1] => x[2] = y[2]
       /\ \A r1, r2 \in user_rows' : r1.firebase_uid = r2.firebase_uid => r1.id = r2.id
       /\ \A r \in user_rows :
              \E r2 \in user_rows' : r2.id = r.id /\ r2.firebase_uid = r.firebase_uid]_vars

\* A user that exchanged before exchanges again, with another user in the table.
C21_Witness ==
    /\ exchange_resp.status = 200
    /\ ~exchange_resp.created
    /\ Cardinality(user_rows) = 2
    /\ Cardinality({i \in Ids(refresh_tokens) : refresh_tokens[i].user_id = exchange_resp.user_id}) = 2

\* C22: a successful exchange for an identity not seen before has created the user,
\* granted it every default role, and returns a role list holding each default role, an
\* access token that verifies for that user and those roles, and a refresh secret that
\* a stored record answers to.
C22_FirstExchange ==
    exchange_resp.status = 200 /\ exchange_resp.created =>
        /\ \E r \in user_rows : /\ r.id = exchange_resp.user_id
                                /\ r.firebase_uid = exchange_resp.id_token.uid
        /\ \A n \in Range(default_roles) :
              /\ <<exchange_resp.user_id, n>> \in user_roles
              /\ n \in Range(exchange_resp.roles)
        /\ verify_access_token(exchange_resp.access_token, aclock) = "none"
        /\ exchange_resp.access_token.payload.sub = exchange_resp.user_id
        /\ exchange_resp.access_token.payload.roles = exchange_resp.roles
        /\ exchange_resp.refresh_token # 0
        /\ UsableRaw(refresh_tokens, exchange_resp.refresh_token, clock)
        /\ refresh_tokens[RowOf(refresh_tokens, exchange_resp.refresh_token)].user_id
              = exchange_resp.user_id

\* A second identity has just been created by its first exchange.
C22_Witness ==
    /\ exchange_resp.status = 200
    /\ exchange_resp.created
    /\ exchange_resp.user_id = "u2"

\* C23: an exchange whose upsert is refused by the unique index on email does not
\* fail: it still returns tokens, for an existing user and for a new identity alike.
C23_EmailConflictTolerated ==
    exchange_resp.conflict => exchange_resp.status = 200 /\ exchange_resp.refresh_token # 0

\* C24: when the identity provider rejects the token the exchange answers 401 and the
\* store is as it was: no user row created or updated, no role granted, no refresh
\* record inserted or revoked, nothing left uncommitted.
C24_RejectedTokenNoWrite ==
    [][exchange_resp'.p # "none" /\ ~exchange_resp'.id_token.valid =>
          /\ exchange_resp'.status = 401
          /\ UNCHANGED <<user_rows, users, user_roles, refresh_tokens, exchange_txn>>]_vars

\* A rejected token was answered while users and refresh records exist.
C24_Witness ==
    /\ exchange_resp.status = 401
    /\ user_rows # {}
    /\ refresh_tokens # <<>>

----------------------------------------------------------------------------
\* The order of the guard.

\* The header carries a bearer token that verifies now and names a subject.
TokenVerified(authorization) ==
    /\ _extract_bearer(authorization).status = 0
    /\ verify_access_token(authorization.credential, aclock) = "none"
    /\ authorization.credential.payload.sub # ""

\* C31: a request goes through extraction, verification, user load, role resolution
\* and decision in that order: one that fails a step gets that step's 401 and has run
\* no later step; 403 goes only to requests whose token verified and whose user was
\* found; a request is let through only after all the steps.
C31_GuardOrder ==
    gresp.p # "none" =>
        /\ gresp.detail = "Missing Bearer token" => gresp.status = 401 /\ gresp.did = {}
        /\ gresp.detail \in {"access_token_expired", "access_token_invalid",
                              "access_token_missing_sub"} =>
               /\ gresp.status = 401
               /\ gresp.did = {"verify"}
               /\ _extract_bearer(gresp.authorization).status = 0
        /\ gresp.detail = "user_not_found" =>
               /\ gresp.status = 401
               /\ gresp.did = {"verify", "user"}
               /\ TokenVerified(gresp.authorization)
        /\ gresp.status = 401 =>
               gresp.detail \in {"Missing Bearer token", "access_token_expired",
                                 "access_token_invalid", "access_token_missing_sub",
                                 "user_not_found"}
        /\ gresp.status \in {403, 200} =>
               /\ gresp.did = {"verify", "user", "roles"}
               /\ TokenVerified(gresp.authorization)
               /\ gresp.have.cached
               /\ gresp.have.of = gresp.user_id

\* A request was refused at the second guard of its route, after all the lookups.
C31_Witness ==
    /\ gresp.status = 403
    /\ gresp.k = 2
    /\ gresp.did = {"verify", "user", "roles"}

\* C32: a token that is correctly signed and not expired, but whose type tag is
\* absent or is not "access", is rejected by verify_access_token, and the guard
\* answers it with a 401 and looks nothing up for it.
C32_WrongTypRejected ==
    (/\ gresp.p # "none"
     /\ _extract_bearer(gresp.authorization).status = 0
     /\ jwt_decode(gresp.authorization.credential, JWT_SECRET, aclock) = "none"
     /\ gresp.authorization.credential.payload.typ # "access")
       => /\ verify_access_token(gresp.authorization.credential, aclock) = "InvalidTokenError"
          /\ gresp.status = 401
          /\ gresp.detail = "access_token_invalid"
          /\ gresp.did = {"verify"}

\* A signed token with the type tag "refresh" that names an existing user who holds
\* the required role was refused.
C32_Witness ==
    /\ gresp.status = 401
    /\ gresp.authorization.credential.payload.typ = "refresh"
    /\ jwt_decode(gresp.authorization.credential, JWT_SECRET, aclock) = "none"
    /\ gresp.authorization.credential.payload.sub \in users
    /\ <<gresp.authorization.credential.payload.sub, pro>> \in user_roles

\* C33: the role list in a minted access token is deduplicated: whatever role sequence
\* the mint is given, no role name is twice in the roles claim of the token.
C33_RolesDeduplicated ==
    token = create_access_token(minted.sub, minted.roles, minted.ttl_minutes, minted.at,
                                token.signature.low)
       => \A i, j \in 1..Len(token.payload.roles) :
             token.payload.roles[i] = token.payload.roles[j] => i = j

\* C34: verifying a refresh token is by hash alone: a usable secret verifies
\* successfully whatever user id comes with it.
C34_VerifyByHashAlone ==
    resp.req.op = "verify" /\ UsableRaw(refresh_tokens, resp.req.raw, clock)
       => resp.detail = "ok"

\* The stored row of the user that the upsert of p loaded.
StoredUser(rows, p) == CHOOSE r \in rows : r.id = exchange_req[p].user.id

\* C35: every exchange for an existing user, once its upsert is over, has left the
\* user's stored last_login_at at the time of that exchange, also when the UPDATE of
\* the email was refused by the unique index and discarded.
C35_LastLoginStamped ==
    [][\A p \in Procs :
          exchange_pc[p] = "commit_update" /\ exchange_pc'[p] # "commit_update" =>
              StoredUser(user_rows', p).last_login_at = exchange_req[p].now]_vars

\* C36: grant_role and revoke_role change user_roles only for a caller whose role set,
\* as read from the store in that request, holds "admin"; a caller without it gets a
\* 403 and user_roles stays as it is.
C36_AdminOnly ==
    [][admin_resp'.p # "none" =>
          /\ user_roles' # user_roles =>
                admin \in admin_resp'.have /\ admin_resp'.status = 200
          /\ admin_resp'.caller \in users /\ admin \notin admin_resp'.have =>
                admin_resp'.status = 403 /\ user_roles' = user_roles]_vars

\* A caller without the admin role was refused, after an administrator's grant had
\* gone through.
C36_Witness ==
    /\ admin_resp.status = 403
    /\ admin_resp.caller \in users
    /\ admin \notin admin_resp.have
    /\ \E u \in users : <<u, pro>> \in user_roles

\* C37: an exchange whose verified claims carry no external subject id is rejected: it
\* creates or updates no user row, grants no role and issues no access or refresh
\* token; no user row ever has an empty external subject id.
C37_NoSubjectRejected ==
    [][/\ \A r \in user_rows' : r.firebase_uid # ""
       /\ (/\ exchange_resp'.p # "none"
           /\ exchange_resp'.id_token.valid
           /\ exchange_resp'.id_token.uid = "")
             => /\ exchange_resp'.status \notin {0, 200}
                /\ exchange_resp'.access_token = NoToken
                /\ exchange_resp'.refresh_token = 0
                /\ UNCHANGED <<user_rows, users, user_roles, refresh_tokens, exchange_txn>>]_vars

\* Claims without a subject were refused while users and refresh records exist.
C37_Witness ==
    /\ exchange_resp.detail = "ValueError"
    /\ exchange_resp.id_token.uid = ""
    /\ user_rows # {}
    /\ refresh_tokens # <<>>

----------------------------------------------------------------------------
\* Whose tokens a refresh returns.

\* The user of the record a raw secret answers to.
OwnerOf(tbl, raw) == tbl[RowOf(tbl, raw)].user_id

\* C38: the access token of a successful refresh has as subject the user of the record
\* matched by the presented secret, and the successor record of a rotation has that
\* user too: a secret issued to one user never yields a token of another user, along
\* any chain of rotations.
C38_TokensStayWithUser ==
    [][/\ \A p \in Procs :
             (pc[p] = "refresh_commit" /\ pc'[p] = "idle" /\ resp'.status = 200) =>
                /\ resp'.sub = OwnerOf(refresh_tokens, req[p].raw)
                /\ req[p].rotate =>
                      OwnerOf(refresh_tokens', resp'.refresh_token) = resp'.sub
                /\ ~req[p].rotate => resp'.refresh_token = 0
       /\ \A pr \in rotated' :
             OwnerOf(refresh_tokens', pr[1]) = OwnerOf(refresh_tokens', pr[2])]_vars

\* A secret of u2 was rotated while u1 holds a usable record.
C38_Witness ==
    /\ resp.req.op = "refresh" /\ resp.status = 200 /\ resp.req.rotate
    /\ resp.sub = "u2"
    /\ \E i \in Ids(refresh_tokens) :
          refresh_tokens[i].user_id = "u1" /\ Usable(refresh_tokens[i], clock)

\* C39 (as claimed): a logout is not undone by a rotation in flight.  Once a logout
\* of a user and a rotation presenting a secret whose record was committed when that
\* logout began have both committed, the successor the rotation inserted is not a
\* usable record.
C39_LogoutNotUndone ==
    \A pr \in rotated :
        RowOf(refresh_tokens, pr[1]) \in loggedOut =>
            ~UsableRaw(refresh_tokens, pr[2], clock)

\* C40 (as claimed): exchanges that present the same external identity concurrently
\* leave one user record for it and all complete: every exchange of an accepted token
\* that names a subject and is not refused on its email answers 200 with the local id
\* of the one record of that identity.
C40_ConcurrentFirstExchanges ==
    /\ \A r1, r2 \in user_rows : r1.firebase_uid = r2.firebase_uid => r1 = r2
    /\ (/\ exchange_resp.p # "none"
        /\ exchange_resp.id_token.valid
        /\ exchange_resp.id_token.uid # ""
        /\ ~exchange_resp.conflict) =>
           /\ exchange_resp.status = 200
           /\ \E r \in user_rows : /\ r.firebase_uid = exchange_resp.id_token.uid
                                   /\ r.id = exchange_resp.user_id

====
